---------------------------- MODULE Spec2Model ----------------------------
(***************************************************************************)
(* NuwaScript (rooch-network/nuwa, Python implementation): a model of the  *)
(* tree-walking interpreter (nuwa/interpreter.py), of the tool registry    *)
(* (nuwa/tools.py) and of the PLY-generated parser (nuwa/parser.py).       *)
(***************************************************************************)
EXTENDS Integers, Sequences, FiniteSets, TLC

(***************************************************************************)
(* Python values.  Every value is a record [k, v]: k is the Python type,   *)
(* v the payload.  A str is the sequence of its characters, a list a       *)
(* sequence of values, a dict a function from its (string) keys to values. *)
(***************************************************************************)
NoneV == [k |-> "none", v |-> 0]
BoolV(b) == [k |-> "bool", v |-> b]
IntV(n) == [k |-> "int", v |-> n]
StrV(s) == [k |-> "str", v |-> s]
ListV(s) == [k |-> "list", v |-> s]
DictV(f) == [k |-> "dict", v |-> f]

\* isinstance(x, bool), isinstance(x, list), isinstance(x, dict)
IsBool(x) == x.k = "bool"
IsList(x) == x.k = "list"
IsDict(x) == x.k = "dict"
\* int and bool are Python's numbers here: bool is a subclass of int.
IsNum(x) == x.k \in {"int", "bool"}
NumOf(x) == IF x.k = "bool" THEN (IF x.v THEN 1 ELSE 0) ELSE x.v

\* bool(x): Python truthiness.
Truthy(x) ==
    CASE x.k = "none" -> FALSE
      [] x.k = "bool" -> x.v
      [] x.k = "int" -> x.v # 0
      [] x.k = "str" -> Len(x.v) > 0
      [] x.k = "list" -> Len(x.v) > 0
      [] x.k = "dict" -> DOMAIN x.v # {}

\* The code point order of the characters the model's strings are made of.
CharCode(c) ==
    CASE c = "0" -> 48 [] c = "1" -> 49 [] c = "A" -> 65 [] c = "B" -> 66
      [] c = "a" -> 97 [] c = "b" -> 98 [] OTHER -> 120

\* operator.eq(a, b): value equality, which never raises.
RECURSIVE PyEq(_, _)
PyEq(a, b) ==
    CASE IsNum(a) /\ IsNum(b) -> NumOf(a) = NumOf(b)
      [] a.k = "str" /\ b.k = "str" -> a.v = b.v
      [] a.k = "none" /\ b.k = "none" -> TRUE
      [] a.k = "list" /\ b.k = "list" ->
            /\ Len(a.v) = Len(b.v)
            /\ \A i \in 1..Len(a.v) : PyEq(a.v[i], b.v[i])
      [] a.k = "dict" /\ b.k = "dict" ->
            /\ DOMAIN a.v = DOMAIN b.v
            /\ \A key \in DOMAIN a.v : PyEq(a.v[key], b.v[key])
      [] OTHER -> FALSE

\* The first index at which two sequences differ (by ==), or 0.
FirstDiff(s, t) ==
    LET n == IF Len(s) < Len(t) THEN Len(s) ELSE Len(t)
        D == {i \in 1..n : ~PyEq(s[i], t[i])}
    IN  IF D = {} THEN 0 ELSE CHOOSE i \in D : \A j \in D : i <= j

IntOrd(m, n) == IF m < n THEN "lt" ELSE IF m = n THEN "eq" ELSE "gt"

\* The order of a and b as the rich comparisons of Python decide it:
\* "lt", "eq", "gt", or "TypeError" where '<' is not supported.
RECURSIVE PyOrd(_, _)
PyOrd(a, b) ==
    CASE IsNum(a) /\ IsNum(b) -> IntOrd(NumOf(a), NumOf(b))
      [] a.k = "str" /\ b.k = "str" ->
            LET n == IF Len(a.v) < Len(b.v) THEN Len(a.v) ELSE Len(b.v)
                D == {i \in 1..n : a.v[i] # b.v[i]}
            IN  IF D = {} THEN IntOrd(Len(a.v), Len(b.v))
                ELSE LET i == CHOOSE i \in D : \A j \in D : i <= j
                     IN  IntOrd(CharCode(a.v[i]), CharCode(b.v[i]))
      [] a.k = "list" /\ b.k = "list" ->
            LET i == FirstDiff(a.v, b.v)
            IN  IF i = 0 THEN IntOrd(Len(a.v), Len(b.v))
                ELSE PyOrd(a.v[i], b.v[i])
      [] OTHER -> "TypeError"


(***************************************************************************)
(* The syntax tree (nuwa/ast.py).  A node is a record whose field "type"   *)
(* is the name of its Python class; the other fields are the dataclass's.  *)
(* A Variable's name is the sequence of the segments of its dotted name    *)
(* ("a.b" is <<"a", "b">>: an identifier holds no dot).  An argument map   *)
(* (a dict, which keeps insertion order) is a sequence of [key, expr]      *)
(* records with distinct keys.  None is NoneNode.                          *)
(***************************************************************************)
NoneNode == [type |-> "NoneType"]
Literal(value) == [type |-> "Literal", value |-> value]
Variable(name) == [type |-> "Variable", name |-> name]
BinaryOp(operator, left, right) ==
    [type |-> "BinaryOp", operator |-> operator, left |-> left, right |-> right]
UnaryOp(operator, operand) ==
    [type |-> "UnaryOp", operator |-> operator, operand |-> operand]
\* FunctionCall has the one field function_name: "arguments" is commented out.
FunctionCall(function_name) ==
    [type |-> "FunctionCall", function_name |-> function_name]
CallExpression(tool_name, arguments) ==
    [type |-> "CallExpression", tool_name |-> tool_name, arguments |-> arguments]
LetStatement(variable_name, value) ==
    [type |-> "LetStatement", variable_name |-> variable_name, value |-> value]
CallStatement(tool_name, arguments) ==
    [type |-> "CallStatement", tool_name |-> tool_name, arguments |-> arguments]
\* else_block: None (isNone) or a list of statements.
NoBlock == [isNone |-> TRUE, stmts |-> <<>>]
SomeBlock(stmts) == [isNone |-> FALSE, stmts |-> stmts]
IfStatement(condition, then_block, else_block) ==
    [type |-> "IfStatement", condition |-> condition,
     then_block |-> then_block, else_block |-> else_block]
ForStatement(iterator_variable, iterable, loop_block) ==
    [type |-> "ForStatement", iterator_variable |-> iterator_variable,
     iterable |-> iterable, loop_block |-> loop_block]
Arg(key, expr) == [key |-> key, expr |-> expr]

(***************************************************************************)
(* Exceptions.  cls is the Python class; what, name and path carry what    *)
(* the message is built from.                                              *)
(***************************************************************************)
NoExc == [cls |-> "", what |-> "", name |-> "", path |-> <<>>]
Exc(cls, what, name, path) ==
    [cls |-> cls, what |-> what, name |-> name, path |-> path]
InterpreterError(what, name, path) == Exc("InterpreterError", what, name, path)

\* The outcome of evaluating an expression: a value or a raised exception,
\* with the external calls (tool callables, output sink) made on the way.
Returned(val, trace) == [ok |-> TRUE, val |-> val, exc |-> NoExc, trace |-> trace]
Raised(exc, trace) == [ok |-> FALSE, val |-> NoneV, exc |-> exc, trace |-> trace]
ToolEvent(name, args) == [ev |-> "tool", name |-> name, args |-> args]
PrintEvent(val) == [ev |-> "print", name |-> "", args |-> [value |-> val]]
\* the output sink raised an Exception with this message
SinkRaised(message) == [ev |-> "sink_raised", name |-> message, args |-> <<>>]

(***************************************************************************)
(* The tool callables: the methods of the tests' MockToolRegistry.  o is   *)
(* what the outside decides in this step: the list get_list returns and    *)
(* whether the output sink raises.  entered says that the callable's body  *)
(* ran (a call whose keyword arguments do not fit raises TypeError before  *)
(* the body).                                                              *)
(***************************************************************************)
ToolNames == {"get_list", "check_item", "tool_that_errors", "process", "identity"}

CallableResult(entered, raised, val) ==
    [entered |-> entered, raised |-> raised, val |-> val]

\* tool_func(**args)
ToolFunc(name, args, o) ==
    CASE name = "get_list" ->
            IF DOMAIN args = {} THEN CallableResult(TRUE, FALSE, ListV(o.list))
            ELSE CallableResult(FALSE, TRUE, NoneV)
      [] name = "check_item" ->
            IF DOMAIN args = {"item_id"}
            THEN IF IsNum(args["item_id"])
                 THEN CallableResult(TRUE, FALSE,
                                     BoolV(NumOf(args["item_id"]) % 2 = 0))
                 ELSE CallableResult(TRUE, TRUE, NoneV)
            ELSE CallableResult(FALSE, TRUE, NoneV)
      [] name = "tool_that_errors" ->
            IF DOMAIN args = {} THEN CallableResult(TRUE, TRUE, NoneV)
            ELSE CallableResult(FALSE, TRUE, NoneV)
      [] name = "process" ->
            IF "value" \in DOMAIN args /\ DOMAIN args \subseteq {"value", "mode"}
            THEN CallableResult(TRUE, FALSE, NoneV)
            ELSE CallableResult(FALSE, TRUE, NoneV)
      [] name = "identity" ->
            IF DOMAIN args = {"arg"} THEN CallableResult(TRUE, FALSE, args["arg"])
            ELSE CallableResult(FALSE, TRUE, NoneV)

\* A variant of CallTool: a tool that is not registered yields None
CallToolLenient(tool_name, args, reg, o) ==
    IF tool_name \notin reg THEN Returned(NoneV, <<>>)
    ELSE LET r == ToolFunc(tool_name, args, o)
             t == IF r.entered THEN <<ToolEvent(tool_name, args)>> ELSE <<>>
         IN  IF r.raised
             THEN Raised(InterpreterError("ToolExecutionFailed", tool_name, <<>>), t)
             ELSE Returned(r.val, t)

\* A variant of CallTool: every exception of call_tool is reported as the
\* tool not being found
CallToolOneKind(tool_name, args, reg, o) ==
    IF tool_name \notin reg
    THEN Raised(InterpreterError("ToolNotFound", tool_name, <<>>), <<>>)
    ELSE LET r == ToolFunc(tool_name, args, o)
             t == IF r.entered THEN <<ToolEvent(tool_name, args)>> ELSE <<>>
         IN  IF r.raised
             THEN Raised(InterpreterError("ToolNotFound", tool_name, <<>>), t)
             ELSE Returned(r.val, t)

\* ToolRegistry.call_tool under Interpreter._execute_tool_call's try: the
\* registry's ToolNotFoundException and ToolExecutionError both come out as
\* InterpreterError, each with the tool's name.
CallTool(tool_name, args, reg, o) ==
    IF tool_name \notin reg
    THEN Raised(InterpreterError("ToolNotFound", tool_name, <<>>), <<>>)
    ELSE LET r == ToolFunc(tool_name, args, o)
             t == IF r.entered THEN <<ToolEvent(tool_name, args)>> ELSE <<>>
         IN  IF r.raised
             THEN Raised(InterpreterError("ToolExecutionFailed", tool_name, <<>>), t)
             ELSE Returned(r.val, t)

\* self.output_handler(value) under _evaluate_FunctionCall's try.
\* A variant of OutputHandler: what the sink raises is not caught
OutputHandlerUncaught(val, o) ==
    IF o.sinkRaises
    THEN Raised(Exc("RuntimeError", "", o.sinkMessage, <<>>),
                <<PrintEvent(val), SinkRaised(o.sinkMessage)>>)
    ELSE Returned(NoneV, <<PrintEvent(val)>>)

\* try: self.output_handler(value_to_print), except Exception as e: raise
\* InterpreterError(f"Error during output handler execution: {e}")
OutputHandler(val, o) ==
    IF o.sinkRaises
    THEN Raised(InterpreterError("OutputHandlerError", o.sinkMessage, <<>>),
                <<PrintEvent(val), SinkRaised(o.sinkMessage)>>)
    ELSE Returned(NoneV, <<PrintEvent(val)>>)

\* A variant of EvaluateVariable: a segment that cannot be resolved yields None
EvaluateVariableOrNone(node, vars) ==
    LET Walk[i \in 1..Len(node.name)] ==
            IF i = 1
            THEN (IF node.name[1] \in DOMAIN vars THEN vars[node.name[1]] ELSE NoneV)
            ELSE IF IsDict(Walk[i - 1]) /\ node.name[i] \in DOMAIN Walk[i - 1].v
                 THEN Walk[i - 1].v[node.name[i]]
            ELSE NoneV
    IN  Returned(Walk[Len(node.name)], <<>>)

\* Interpreter._evaluate_Variable
EvaluateVariable(node, vars) ==
    IF Len(node.name) > 1
    THEN LET base == node.name[1]
             \* the walk over parts[1:]: the first segment that fails, or 0
             Walk[i \in 1..Len(node.name)] ==
                 IF i = 1 THEN [ok |-> TRUE, val |-> vars[base], at |-> 0]
                 ELSE LET p == Walk[i - 1]
                      IN  IF ~p.ok THEN p
                          ELSE IF IsDict(p.val) /\ node.name[i] \in DOMAIN p.val.v
                               THEN [ok |-> TRUE, val |-> p.val.v[node.name[i]], at |-> 0]
                          ELSE [ok |-> FALSE, val |-> p.val, at |-> i]
         IN  IF base \notin DOMAIN vars
             THEN Raised(InterpreterError("VariableNotFoundForMemberAccess",
                                          base, node.name), <<>>)
             ELSE LET w == Walk[Len(node.name)]
                  IN  IF w.ok THEN Returned(w.val, <<>>)
                      ELSE IF IsDict(w.val)
                           THEN Raised(InterpreterError("MemberNotFound",
                                          node.name[w.at],
                                          SubSeq(node.name, 1, w.at - 1)), <<>>)
                      ELSE Raised(InterpreterError("CannotAccessMember",
                                          node.name[w.at],
                                          SubSeq(node.name, 1, w.at - 1)), <<>>)
    ELSE IF node.name[1] \in DOMAIN vars
         THEN Returned(vars[node.name[1]], <<>>)
    ELSE Raised(InterpreterError("VariableNotDefined", node.name[1], <<>>), <<>>)

\* op_map[node.operator](left_val, right_val), with the TypeError it may raise.
ApplyBinaryOp(operator, l, r) ==
    LET ord == PyOrd(l, r)
        cmp(S) == IF ord = "TypeError"
                  THEN Raised(InterpreterError("TypeErrorDuringOperation",
                                               operator, <<>>), <<>>)
                  ELSE Returned(BoolV(ord \in S), <<>>)
    IN  CASE operator = "==" -> Returned(BoolV(PyEq(l, r)), <<>>)
          [] operator = "!=" -> Returned(BoolV(~PyEq(l, r)), <<>>)
          [] operator = "<" -> cmp({"lt"})
          [] operator = "<=" -> cmp({"lt", "eq"})
          [] operator = ">" -> cmp({"gt"})
          [] operator = ">=" -> cmp({"gt", "eq"})
          [] operator = "AND" -> Returned(BoolV(Truthy(l) /\ Truthy(r)), <<>>)
          [] operator = "OR" -> Returned(BoolV(Truthy(l) \/ Truthy(r)), <<>>)
          [] OTHER -> Raised(InterpreterError("UnsupportedBinaryOperator",
                                              operator, <<>>), <<>>)

\* hasattr(node, attr): the fields the node's record has.
HasAttr(node, attr) == attr \in DOMAIN node
AttributeError(attr) == Exc("AttributeError", "NoAttribute", attr, <<>>)
WithTrace(r, trace) == [r EXCEPT !.trace = trace \o r.trace]

\* The node types _evaluate_expression finds an _evaluate_<type> method for.
EvaluatedTypes ==
    {"Literal", "Variable", "BinaryOp", "UnaryOp", "FunctionCall",
     "CallExpression", "CalcExpression"}

(***************************************************************************)
(* Interpreter._evaluate_expression and the _evaluate_<type> methods, and  *)
(* Interpreter._execute_tool_call (ExecuteToolCall).  Evaluation reads the *)
(* variables and never writes them.                                        *)
(***************************************************************************)
RECURSIVE Eval(_, _, _, _)

\* evaluated_args[key] = self._evaluate_expression(expr), in the map's order
RECURSIVE EvalArgs(_, _, _, _, _, _, _)
EvalArgs(arguments, i, acc, trace, vars, reg, o) ==
    IF i > Len(arguments) THEN Returned(DictV(acc), trace)
    ELSE LET r == Eval(arguments[i].expr, vars, reg, o)
         IN  IF ~r.ok THEN WithTrace(r, trace)
             ELSE EvalArgs(arguments, i + 1,
                           (arguments[i].key :> r.val) @@ acc,
                           trace \o r.trace, vars, reg, o)

\* A variant of ExecuteToolCall: the tool is invoked a second time
ExecuteToolCallTwice(tool_name, a, reg, o) ==
    IF ~a.ok THEN a
    ELSE LET r == CallTool(tool_name, a.val.v, reg, o)
         IN  WithTrace(r, a.trace \o r.trace)

\* A variant of ExecuteToolCall: the tool is invoked though an argument raised
ExecuteToolCallAnyway(tool_name, a, reg, o) ==
    IF ~a.ok THEN [a EXCEPT !.trace = a.trace \o <<ToolEvent(tool_name, <<>>)>>]
    ELSE WithTrace(CallTool(tool_name, a.val.v, reg, o), a.trace)

\* Interpreter._execute_tool_call, given a, the outcome of evaluating the
\* arguments (its first loop).
ExecuteToolCall(tool_name, a, reg, o) ==
    IF ~a.ok THEN a
    ELSE WithTrace(CallTool(tool_name, a.val.v, reg, o), a.trace)

\* A variant of EvaluateBinaryOp: AND and OR skip the right operand where the left decides
EvaluateBinaryOpShortCircuit(node, l, r) ==
    IF ~l.ok THEN l
    ELSE IF node.operator = "AND" /\ ~Truthy(l.val)
         THEN Returned(BoolV(FALSE), l.trace)
    ELSE IF node.operator = "OR" /\ Truthy(l.val)
         THEN Returned(BoolV(TRUE), l.trace)
    ELSE IF ~r.ok THEN WithTrace(r, l.trace)
    ELSE WithTrace(ApplyBinaryOp(node.operator, l.val, r.val),
                   l.trace \o r.trace)

\* Interpreter._evaluate_BinaryOp, given l and r, the outcomes of evaluating
\* node.left and node.right: both are evaluated, left first, before the
\* operator is applied.
EvaluateBinaryOp(node, l, r) ==
    IF ~l.ok THEN l
    ELSE IF ~r.ok THEN WithTrace(r, l.trace)
    ELSE WithTrace(ApplyBinaryOp(node.operator, l.val, r.val),
                   l.trace \o r.trace)

\* Interpreter._evaluate_UnaryOp, given x, the outcome of evaluating
\* node.operand.
EvaluateUnaryOp(node, x) ==
    IF ~x.ok THEN x
    ELSE IF node.operator = "NOT"
         THEN Returned(BoolV(~Truthy(x.val)), x.trace)
    ELSE Raised(InterpreterError("UnsupportedUnaryOperator",
                                 node.operator, <<>>), x.trace)

\* Interpreter._evaluate_FunctionCall, given r, the outcome of evaluating
\* node.arguments[0] where PRINT gets to evaluate it.
EvaluateFunctionCall(node, r, o) ==
    IF node.function_name = "NOW"
    THEN IF ~HasAttr(node, "arguments")
         THEN Raised(AttributeError("arguments"), <<>>)
         ELSE IF Len(node.arguments) > 0
              THEN Raised(InterpreterError("NowNoArguments", "NOW", <<>>), <<>>)
         ELSE Returned([k |-> "float", v |-> o.now], <<>>)
    ELSE IF node.function_name = "PRINT"
         THEN IF ~HasAttr(node, "arguments")
              THEN Raised(AttributeError("arguments"), <<>>)
              ELSE IF Len(node.arguments) # 1
                   THEN Raised(InterpreterError("PrintOneArgument", "PRINT", <<>>), <<>>)
              ELSE IF ~r.ok THEN r
              ELSE WithTrace(OutputHandler(r.val, o), r.trace)
    ELSE Raised(InterpreterError("UnknownBuiltin", node.function_name, <<>>), <<>>)

(***************************************************************************)
(* CALC.  The formula is evaluated by the simpleeval library (imported at  *)
(* lines 6-12; the model is of an installation that has it):               *)
(* SimpleEval(operators=DEFAULT_OPERATORS, functions={}, names=local_vars) *)
(* and s.eval(node.formula).  A formula is Python source; ast.parse makes  *)
(* a tree of it or raises SyntaxError.  The model has the formulas the     *)
(* scripts use, each with the tree ast.parse makes of it: a name, a        *)
(* number, one binary operation on these, or one call.                     *)
(***************************************************************************)
ParsedFormulas ==
    LET Name(id) == [node |-> "Name", id |-> id]
        Num(n) == [node |-> "Num", n |-> n]
        BinOp(op, left, right) ==
            [node |-> "BinOp", op |-> op, left |-> left, right |-> right]
        Call(func, args) == [node |-> "Call", func |-> func, args |-> args]
    IN  ("x + 1" :> BinOp("+", Name("x"), Num(1))) @@
        ("x + y" :> BinOp("+", Name("x"), Name("y"))) @@
        ("x / 0" :> BinOp("/", Name("x"), Num(0))) @@
        ("x / y" :> BinOp("/", Name("x"), Name("y"))) @@
        ("f(x)" :> Call("f", <<Name("x")>>)) @@
        ("x +" :> [node |-> "SyntaxError"])

\* The classes an exception of simpleeval or of Python is an instance of:
\* FunctionNotDefined and NameNotDefined are subclasses of
\* simpleeval.InvalidExpression.
Bases(cls) ==
    IF cls \in {"FunctionNotDefined", "NameNotDefined"}
    THEN {cls, "InvalidExpression", "Exception"}
    ELSE {cls, "Exception"}
\* str(e): the library's message and the name it is about
Str(e) ==
    CASE e.cls = "NameNotDefined" -> <<"is not defined for expression", e.name>>
      [] e.cls = "FunctionNotDefined" -> <<"Function not defined", e.name>>
      [] OTHER -> <<e.cls>>

\* A variant of Names: a name that vars does not list is looked up in
\* self.variables
NamesWithVariables(local_vars, vars) == local_vars @@ vars

\* names=local_vars: what the formula's names are looked up in
Names(local_vars, vars) == local_vars

\* s.eval(formula): the value of a name is looked up in names, no function
\* is defined (functions={}), + and / are Python's; the quotient is a float,
\* exact for the operands the scripts use.
SimpleEval(formula, names) ==
    LET tree == ParsedFormulas[formula]
        raise(cls, name) == Raised(Exc(cls, "", name, <<>>), <<>>)
        EvalAtom(atom) ==
            IF atom.node = "Num" THEN Returned(IntV(atom.n), <<>>)
            ELSE IF atom.id \in DOMAIN names
                 THEN Returned(names[atom.id], <<>>)
            ELSE raise("NameNotDefined", atom.id)
        number(x) == x.k \in {"int", "bool", "float"}
        ApplyOperator(op, l, r) ==
            LET kind == IF op = "/" \/ l.k = "float" \/ r.k = "float"
                        THEN "float" ELSE "int"
            IN  IF number(l) /\ number(r)
                THEN IF op = "+"
                     THEN Returned([k |-> kind, v |-> NumOf(l) + NumOf(r)],
                                   <<>>)
                     ELSE IF NumOf(r) = 0
                          THEN raise("ZeroDivisionError", "")
                          ELSE Returned([k |-> kind,
                                         v |-> NumOf(l) \div NumOf(r)], <<>>)
                ELSE IF op = "+" /\ l.k = "str" /\ r.k = "str"
                     THEN Returned(StrV(l.v \o r.v), <<>>)
                ELSE raise("TypeError", "")
    IN  CASE tree.node = "SyntaxError" -> raise("SyntaxError", "")
          [] tree.node = "Call" -> raise("FunctionNotDefined", tree.func)
          [] tree.node = "BinOp" ->
                LET l == EvalAtom(tree.left)
                    r == EvalAtom(tree.right)
                IN  IF ~l.ok THEN l
                    ELSE IF ~r.ok THEN r
                    ELSE ApplyOperator(tree.op, l.val, r.val)
          [] OTHER -> EvalAtom(tree)

\* Interpreter._evaluate_CalcExpression, given a, the outcome of evaluating
\* node.variables (its first loop): the except clauses are tried in the
\* order they are written.
EvaluateCalcExpression(node, a, vars) ==
    IF ~a.ok THEN a
    ELSE LET local_vars == a.val.v
             r == SimpleEval(node.formula, Names(local_vars, vars))
             e == r.exc
             raise(what, name, path) ==
                 Raised(InterpreterError(what, name, path), a.trace)
         IN  IF r.ok THEN WithTrace(r, a.trace)
             ELSE IF "InvalidExpression" \in Bases(e.cls)
                  THEN raise("InvalidCalcFormula", node.formula, Str(e))
             ELSE IF "FunctionNotDefined" \in Bases(e.cls)
                  THEN raise("FunctionNotAllowed", e.name, <<node.formula>>)
             ELSE IF "NameNotDefined" \in Bases(e.cls)
                  THEN raise("VariableNotDefined", e.name, <<node.formula>>)
             ELSE IF "ZeroDivisionError" \in Bases(e.cls)
                  THEN raise("DivisionByZero", node.formula, <<>>)
             ELSE raise("ErrorEvaluatingCalc", node.formula, Str(e))

\* Whether _evaluate_FunctionCall reaches the evaluation of PRINT's argument.
PrintsArgument(node) ==
    /\ node.function_name = "PRINT"
    /\ HasAttr(node, "arguments")
    /\ Len(node.arguments) = 1

\* Interpreter._evaluate_expression: getattr(self, '_evaluate_<type>', ...),
\* with the evaluations of sub-expressions that the handlers make.
Eval(node, vars, reg, o) ==
    CASE node.type = "Literal" -> Returned(node.value, <<>>)
      [] node.type = "Variable" -> EvaluateVariable(node, vars)
      [] node.type = "BinaryOp" ->
            EvaluateBinaryOp(node, Eval(node.left, vars, reg, o),
                                   Eval(node.right, vars, reg, o))
      [] node.type = "UnaryOp" ->
            EvaluateUnaryOp(node, Eval(node.operand, vars, reg, o))
      [] node.type = "FunctionCall" ->
            EvaluateFunctionCall(node,
                IF PrintsArgument(node)
                THEN Eval(node.arguments[1], vars, reg, o)
                ELSE Returned(NoneV, <<>>), o)
      [] node.type = "CallExpression" ->
            \* Interpreter._evaluate_CallExpression
            ExecuteToolCall(node.tool_name,
                EvalArgs(node.arguments, 1, <<>>, <<>>, vars, reg, o), reg, o)
      [] node.type = "CalcExpression" ->
            EvaluateCalcExpression(node,
                EvalArgs(node.variables, 1, <<>>, <<>>, vars, reg, o), vars)
      [] node.type \notin EvaluatedTypes ->
            Raised(InterpreterError("EvaluationNotImplemented", node.type, <<>>), <<>>)

(***************************************************************************)
(* The parser (nuwa/parser.py): the tokens the lexer hands over, the       *)
(* grammar, the tables yacc.yacc() builds from it, and the p_ functions.   *)
(* A token or grammar symbol (ply's LexToken, YaccSymbol) is a record      *)
(* [type, value].  The value of a NUMBER, STRING or BOOLEAN token is the   *)
(* Python value the lexer converted it to; that of an ID is its name; that *)
(* of any other token its text.                                            *)
(***************************************************************************)
TokenText ==
    [ASSIGN |-> "=", EQ |-> "==", NE |-> "!=", GT |-> ">", LT |-> "<",
     GE |-> ">=", LE |-> "<=", LBRACE |-> "{", RBRACE |-> "}",
     LPAREN |-> "(", RPAREN |-> ")", COLON |-> ":", COMMA |-> ",", DOT |-> "."]
\* a token of one of the simple rules t_ASSIGN .. t_DOT
SimpleToken(type) == [type |-> type, value |-> TokenText[type]]
\* the reserved words whose token type is the word itself
reserved ==
    {"LET", "CALL", "IF", "THEN", "ELSE", "END", "FOR", "IN", "DO", "CALC",
     "PRINT", "AND", "OR", "NOT", "NOW"}
\* A variant of t_ID: the word is looked up whatever its case
t_IDAnyCase(word) ==
    LET upper == ("let" :> "LET") @@ ("then" :> "THEN") @@ ("true" :> "TRUE")
                   @@ ("false" :> "FALSE")
        w == IF word \in DOMAIN upper THEN upper[word] ELSE word
    IN  IF w \in reserved THEN [type |-> w, value |-> word]
        ELSE IF w \in {"TRUE", "FALSE"}
             THEN [type |-> "BOOLEAN", value |-> BoolV(w = "TRUE")]
        ELSE [type |-> "ID", value |-> word]
t_ID(word) ==
    IF word \in reserved THEN [type |-> word, value |-> word]
    ELSE IF word \in {"TRUE", "FALSE"}
         THEN [type |-> "BOOLEAN", value |-> BoolV(word = "TRUE")]
    ELSE [type |-> "ID", value |-> word]
\* the numerals the scripts use: their digits without the point, the number
\* of digits after it, and whether '.' is in t.value
Numerals ==
    LET Numeral(digits, decimals, dot) ==
            [digits |-> digits, decimals |-> decimals, dot |-> dot]
    IN  ("1" :> Numeral(1, 0, FALSE)) @@ ("2" :> Numeral(2, 0, FALSE))
        @@ ("5" :> Numeral(5, 0, FALSE)) @@ ("10" :> Numeral(10, 0, FALSE))
        @@ ("007" :> Numeral(7, 0, FALSE))
        @@ ("3.14159" :> Numeral(314159, 5, TRUE))
        @@ ("1.0" :> Numeral(10, 1, TRUE))
\* float(t.value) where '.' is in t.value, else int(t.value); a float is kept
\* as the fraction digits / 10^decimals
t_NUMBER(numeral) ==
    LET n == Numerals[numeral]
    IN  [type |-> "NUMBER",
         value |-> IF n.dot
                   THEN [k |-> "float", v |-> <<n.digits, n.decimals>>]
                   ELSE IntV(n.digits)]
\* t.value[1:-1] of the string literals the scripts use, character by
\* character; U+00E9 is the one character e with acute accent
Unquoted ==
    ("\"a\"" :> <<"a">>) @@ ("\"s\"" :> <<"s">>) @@ ("\"x\"" :> <<"x">>)
    @@ ("\"test\"" :> <<"t", "e", "s", "t">>)
    @@ ("\"a\\\"b\"" :> <<"a", "\\", "\"", "b">>)
    @@ ("\"a\\nb\"" :> <<"a", "\\", "n", "b">>)
    @@ ("\"U+00E9\"" :> <<"U+00E9">>)
\* t.value[1:-1].encode().decode('unicode_escape'): the text is encoded as
\* UTF-8, and the bytes are decoded one by one as Latin-1 characters, a
\* backslash and the byte after it as the character the escape stands for
t_STRING(literal) ==
    LET chars == Unquoted[literal]
        utf8 == ("U+00E9" :> <<"0xC3", "0xA9">>)
        latin1 == ("0xC3" :> "U+00C3") @@ ("0xA9" :> "U+00A9")
        escapes == ("n" :> "\n") @@ ("t" :> "\t") @@ ("\"" :> "\"")
                     @@ ("\\" :> "\\")
        encode[i \in 0..Len(chars)] ==
            IF i = 0 THEN <<>>
            ELSE encode[i - 1] \o (IF chars[i] \in DOMAIN utf8
                                   THEN utf8[chars[i]] ELSE <<chars[i]>>)
        bytes == encode[Len(chars)]
        decode[i \in 1..(Len(bytes) + 2)] ==
            IF i > Len(bytes) THEN <<>>
            ELSE IF bytes[i] = "\\" /\ i < Len(bytes)
                      /\ bytes[i + 1] \in DOMAIN escapes
                 THEN <<escapes[bytes[i + 1]]>> \o decode[i + 2]
            ELSE <<IF bytes[i] \in DOMAIN latin1 THEN latin1[bytes[i]]
                   ELSE bytes[i]>> \o decode[i + 1]
    IN  [type |-> "STRING", value |-> StrV(decode[1])]
\* The token the lexer makes of one lexeme: the rule whose pattern matches.
Token(lexeme) ==
    IF \E type \in DOMAIN TokenText : TokenText[type] = lexeme
    THEN SimpleToken(CHOOSE type \in DOMAIN TokenText :
                         TokenText[type] = lexeme)
    ELSE IF lexeme \in DOMAIN Numerals THEN t_NUMBER(lexeme)
    ELSE IF lexeme \in DOMAIN Unquoted THEN t_STRING(lexeme)
    ELSE t_ID(lexeme)
\* lookahead = None; the $end symbol that stands for the end of the input;
\* the error symbol of ply's error recovery
NoToken == [type |-> "", value |-> ""]
EndToken == [type |-> "$end", value |-> ""]
ErrorSym == [type |-> "error", value |-> "error"]

\* What the parser prints: p_error's "Syntax error at token ..." (token is
\* NoToken for "Syntax error at EOF") and p_binary_op's "Syntax Error:
\* Cannot access member ...".
Diagnostic(kind, token) == [kind |-> kind, token |-> token]

CalcExpression(formula, variables) ==
    [type |-> "CalcExpression", formula |-> formula, variables |-> variables]
Script(statements) == [type |-> "Script", statements |-> statements]

\* The outcome of a p_ function: p[0], or SyntaxError raised, and what it
\* printed.
Produced(value) == [value |-> value, raised |-> FALSE, printed |-> <<>>]
SyntaxError == [value |-> NoneNode, raised |-> TRUE, printed |-> <<>>]

(***************************************************************************)
(* The p_ functions.  p is the right-hand side's symbols, p[1] .. p[n]     *)
(* (so Python's len(p) is Len(p) + 1); the result is p[0].  A dict of      *)
(* arguments is the sequence of its [key, expr] items in insertion order,  *)
(* a Variable's dotted name the sequence of its segments.                  *)
(***************************************************************************)
p_script(p) == Script(p[1].value)
p_statements(p) ==
    IF Len(p) + 1 = 3 THEN Append(p[1].value, p[2].value) ELSE <<p[1].value>>
p_statement(p) == p[1].value
p_let_statement(p) == LetStatement(p[2].value, p[4].value)
p_call_statement(p) == CallStatement(p[2].value, p[4].value)
p_if_statement(p) ==
    IF Len(p) + 1 = 6
    THEN IfStatement(p[2].value, p[4].value, NoBlock)
    ELSE IfStatement(p[2].value, p[4].value, SomeBlock(p[6].value))
p_for_statement(p) == ForStatement(p[2].value, p[4].value, p[6].value)
\* p[1] is None exactly where p[1] is the symbol empty
p_arguments(p) == IF p[1].type # "empty" THEN p[1].value ELSE <<>>
\* d[key] = expr
SetItem(d, key, expr) ==
    IF \E i \in 1..Len(d) : d[i].key = key
    THEN [i \in 1..Len(d) |-> IF d[i].key = key THEN Arg(key, expr) ELSE d[i]]
    ELSE Append(d, Arg(key, expr))
p_argument_list(p) ==
    IF Len(p) + 1 = 4
    THEN SetItem(p[1].value, p[3].value.key, p[3].value.expr)
    ELSE <<Arg(p[1].value.key, p[1].value.expr)>>
\* the tuple (key, value_expr)
p_argument(p) == Arg(p[1].value, p[3].value)
p_empty(p) == NoneNode
p_expression(p) == IF Len(p) + 1 = 2 THEN p[1].value ELSE p[2].value
\* A variant of p_binary_op: member access builds an operator node of its own
p_binary_opAccessNode(p) ==
    IF p[2].value \in {"==", "!=", "<", "<=", ">", ">=", "AND", "OR", "."}
    THEN Produced(BinaryOp(p[2].value, p[1].value,
                           IF p[2].value = "." THEN Variable(<<p[3].value>>)
                           ELSE p[3].value))
    ELSE Produced(NoneNode)
p_binary_op(p) ==
    IF p[2].value \in {"==", "!=", "<", "<=", ">", ">=", "AND", "OR"}
    THEN Produced(BinaryOp(p[2].value, p[1].value, p[3].value))
    ELSE IF p[2].value = "."
         THEN IF p[1].value.type = "Variable"
              THEN Produced(Variable(Append(p[1].value.name, p[3].value)))
              ELSE [value |-> NoneNode, raised |-> FALSE,
                    printed |-> <<Diagnostic("member_access", p[3])>>]
    ELSE Produced(NoneNode)
p_unary_op(p) == UnaryOp("NOT", p[2].value)
p_function_call(p) == FunctionCall("NOW")
p_call_expression(p) == CallExpression(p[2].value, p[4].value)
p_calc_expression(p) == CalcExpression(p[3].value.formula, p[3].value.vars)
p_calc_args(p) ==
    IF p[1].value # "formula" THEN SyntaxError
    ELSE IF p[5].value # "vars" THEN SyntaxError
    ELSE Produced([formula |-> p[3].value, vars |-> p[8].value])
p_literal(p) == Literal(p[1].value)
p_variable(p) == Variable(<<p[1].value>>)

\* p.callable(pslice)
CallProduction(func, p) ==
    CASE func = "p_script" -> Produced(p_script(p))
      [] func = "p_statements" -> Produced(p_statements(p))
      [] func = "p_statement" -> Produced(p_statement(p))
      [] func = "p_let_statement" -> Produced(p_let_statement(p))
      [] func = "p_call_statement" -> Produced(p_call_statement(p))
      [] func = "p_if_statement" -> Produced(p_if_statement(p))
      [] func = "p_for_statement" -> Produced(p_for_statement(p))
      [] func = "p_arguments" -> Produced(p_arguments(p))
      [] func = "p_argument_list" -> Produced(p_argument_list(p))
      [] func = "p_argument" -> Produced(p_argument(p))
      [] func = "p_empty" -> Produced(p_empty(p))
      [] func = "p_expression" -> Produced(p_expression(p))
      [] func = "p_binary_op" -> p_binary_op(p)
      [] func = "p_unary_op" -> Produced(p_unary_op(p))
      [] func = "p_function_call" -> Produced(p_function_call(p))
      [] func = "p_call_expression" -> Produced(p_call_expression(p))
      [] func = "p_calc_expression" -> Produced(p_calc_expression(p))
      [] func = "p_calc_args" -> p_calc_args(p)
      [] func = "p_literal" -> Produced(p_literal(p))
      [] func = "p_variable" -> Produced(p_variable(p))

(***************************************************************************)
(* The grammar and the tables of parser = yacc.yacc(): the LALR(1)         *)
(* automaton of the grammar with the conflicts resolved by the precedence  *)
(* declaration (OR, AND left; NOT right; the comparisons nonassoc; a rule  *)
(* has the precedence of its last terminal, DOT and ID none), as ply does: *)
(* a shift/reduce conflict reduces where the token's level is below the    *)
(* rule's or equal with the rule left, has no action (None) where equal    *)
(* and nonassoc, and shifts otherwise.  States are numbered from 0.        *)
(***************************************************************************)
\* The grammar's productions, numbered in the order parser.py defines them:
\* the left-hand side, the length of the right-hand side and the p_ function.
Productions ==
       \* 0: S' -> script
    << [name |-> "S'", len |-> 1, func |-> ""],
       \* 1: script -> statements
       [name |-> "script", len |-> 1, func |-> "p_script"],
       \* 2: statements -> statements statement
       [name |-> "statements", len |-> 2, func |-> "p_statements"],
       \* 3: statements -> statement
       [name |-> "statements", len |-> 1, func |-> "p_statements"],
       \* 4: statement -> let_statement
       [name |-> "statement", len |-> 1, func |-> "p_statement"],
       \* 5: statement -> call_statement
       [name |-> "statement", len |-> 1, func |-> "p_statement"],
       \* 6: statement -> if_statement
       [name |-> "statement", len |-> 1, func |-> "p_statement"],
       \* 7: statement -> for_statement
       [name |-> "statement", len |-> 1, func |-> "p_statement"],
       \* 8: let_statement -> LET ID ASSIGN expression
       [name |-> "let_statement", len |-> 4, func |-> "p_let_statement"],
       \* 9: call_statement -> CALL ID LBRACE arguments RBRACE
       [name |-> "call_statement", len |-> 5, func |-> "p_call_statement"],
       \* 10: if_statement -> IF expression THEN statements END
       [name |-> "if_statement", len |-> 5, func |-> "p_if_statement"],
       \* 11: if_statement -> IF expression THEN statements ELSE statements END
       [name |-> "if_statement", len |-> 7, func |-> "p_if_statement"],
       \* 12: for_statement -> FOR ID IN expression DO statements END
       [name |-> "for_statement", len |-> 7, func |-> "p_for_statement"],
       \* 13: arguments -> argument_list
       [name |-> "arguments", len |-> 1, func |-> "p_arguments"],
       \* 14: arguments -> empty
       [name |-> "arguments", len |-> 1, func |-> "p_arguments"],
       \* 15: argument_list -> argument_list COMMA argument
       [name |-> "argument_list", len |-> 3, func |-> "p_argument_list"],
       \* 16: argument_list -> argument
       [name |-> "argument_list", len |-> 1, func |-> "p_argument_list"],
       \* 17: argument -> ID COLON expression
       [name |-> "argument", len |-> 3, func |-> "p_argument"],
       \* 18: empty -> <empty>
       [name |-> "empty", len |-> 0, func |-> "p_empty"],
       \* 19: expression -> binary_op
       [name |-> "expression", len |-> 1, func |-> "p_expression"],
       \* 20: expression -> unary_op
       [name |-> "expression", len |-> 1, func |-> "p_expression"],
       \* 21: expression -> function_call
       [name |-> "expression", len |-> 1, func |-> "p_expression"],
       \* 22: expression -> call_expression
       [name |-> "expression", len |-> 1, func |-> "p_expression"],
       \* 23: expression -> calc_expression
       [name |-> "expression", len |-> 1, func |-> "p_expression"],
       \* 24: expression -> literal
       [name |-> "expression", len |-> 1, func |-> "p_expression"],
       \* 25: expression -> variable
       [name |-> "expression", len |-> 1, func |-> "p_expression"],
       \* 26: expression -> LPAREN expression RPAREN
       [name |-> "expression", len |-> 3, func |-> "p_expression"],
       \* 27: binary_op -> expression EQ expression
       [name |-> "binary_op", len |-> 3, func |-> "p_binary_op"],
       \* 28: binary_op -> expression NE expression
       [name |-> "binary_op", len |-> 3, func |-> "p_binary_op"],
       \* 29: binary_op -> expression LT expression
       [name |-> "binary_op", len |-> 3, func |-> "p_binary_op"],
       \* 30: binary_op -> expression LE expression
       [name |-> "binary_op", len |-> 3, func |-> "p_binary_op"],
       \* 31: binary_op -> expression GT expression
       [name |-> "binary_op", len |-> 3, func |-> "p_binary_op"],
       \* 32: binary_op -> expression GE expression
       [name |-> "binary_op", len |-> 3, func |-> "p_binary_op"],
       \* 33: binary_op -> expression AND expression
       [name |-> "binary_op", len |-> 3, func |-> "p_binary_op"],
       \* 34: binary_op -> expression OR expression
       [name |-> "binary_op", len |-> 3, func |-> "p_binary_op"],
       \* 35: binary_op -> expression DOT ID
       [name |-> "binary_op", len |-> 3, func |-> "p_binary_op"],
       \* 36: unary_op -> NOT expression
       [name |-> "unary_op", len |-> 2, func |-> "p_unary_op"],
       \* 37: function_call -> NOW LPAREN RPAREN
       [name |-> "function_call", len |-> 3, func |-> "p_function_call"],
       \* 38: call_expression -> CALL ID LBRACE arguments RBRACE
       [name |-> "call_expression", len |-> 5, func |-> "p_call_expression"],
       \* 39: calc_expression -> CALC LBRACE calc_args RBRACE
       [name |-> "calc_expression", len |-> 4, func |-> "p_calc_expression"],
       \* 40: calc_args -> ID COLON STRING COMMA ID COLON LBRACE arguments
       \*     RBRACE
       [name |-> "calc_args", len |-> 9, func |-> "p_calc_args"],
       \* 41: literal -> NUMBER
       [name |-> "literal", len |-> 1, func |-> "p_literal"],
       \* 42: literal -> STRING
       [name |-> "literal", len |-> 1, func |-> "p_literal"],
       \* 43: literal -> BOOLEAN
       [name |-> "literal", len |-> 1, func |-> "p_literal"],
       \* 44: variable -> ID
       [name |-> "variable", len |-> 1, func |-> "p_variable"]
    >>

\* The LALR(1) automaton of the grammar, one row for each state s (at index
\* s + 1): the states shifted to, the rules reduced by, the tokens whose
\* entry the precedence rules set to None (nonassoc), whether $end is
\* accepted, and the goto of each nonterminal.
Table ==
    LET Lookaheads1 ==
            {"$end", "LET", "CALL", "IF", "ELSE", "END", "FOR"}
        Lookaheads2 ==
            {"$end", "LET", "CALL", "IF", "THEN", "ELSE", "END", "FOR", "DO",
             "EQ", "NE", "GT", "LT", "GE", "LE", "AND", "OR", "RBRACE",
             "RPAREN", "COMMA", "DOT"}
        Lookaheads3 ==
            {"$end", "LET", "CALL", "IF", "THEN", "ELSE", "END", "FOR", "DO",
             "AND", "OR", "RBRACE", "RPAREN", "COMMA", "DOT"}
        Lookaheads4 ==
            {"EQ", "NE", "GT", "LT", "GE", "LE"}
        Lookaheads5 ==
            {"$end", "LET", "CALL", "IF", "THEN", "ELSE", "END", "FOR", "DO",
             "OR", "RBRACE", "RPAREN", "COMMA", "DOT"}
        GotoExpression(n) ==
            [expression |-> n, binary_op |-> 16, unary_op |-> 17,
             function_call |-> 18, call_expression |-> 19,
             calc_expression |-> 20, literal |-> 21, variable |-> 22]
        GotoStatement(n) ==
            [statement |-> n, let_statement |-> 4, call_statement |-> 5,
             if_statement |-> 6, for_statement |-> 7]
        GotoStatements(m, n) == [statements |-> m] @@ GotoStatement(n)
        ShiftMap1 ==
            ("LET" :> 8 @@ "CALL" :> 9 @@ "IF" :> 10 @@ "FOR" :> 11)
        ShiftMap2 ==
            ("CALL" :> 26 @@ "CALC" :> 27 @@ "NOW" :> 25 @@ "ID" :> 31 @@
             "NUMBER" :> 28 @@ "STRING" :> 29 @@ "BOOLEAN" :> 30 @@
             "NOT" :> 24 @@ "LPAREN" :> 23)
        ShiftMap3 ==
            ("THEN" :> 35 @@ "EQ" :> 36 @@ "NE" :> 37 @@ "GT" :> 40 @@
             "LT" :> 38 @@ "GE" :> 41 @@ "LE" :> 39 @@ "AND" :> 42 @@
             "OR" :> 43 @@ "DOT" :> 44)
        GotoMap1 ==
            [arguments |-> 52, argument_list |-> 53, empty |-> 54,
             argument |-> 55]
        ShiftMap4 ==
            ("EQ" :> 36 @@ "NE" :> 37 @@ "GT" :> 40 @@ "LT" :> 38 @@
             "GE" :> 41 @@ "LE" :> 39 @@ "AND" :> 42 @@ "OR" :> 43 @@
             "RPAREN" :> 67 @@ "DOT" :> 44)
        ShiftMap5 ==
            ("EQ" :> 36 @@ "NE" :> 37 @@ "GT" :> 40 @@ "LT" :> 38 @@
             "GE" :> 41 @@ "LE" :> 39)
        ShiftMap6 ==
            ("EQ" :> 36 @@ "NE" :> 37 @@ "GT" :> 40 @@ "LT" :> 38 @@
             "GE" :> 41 @@ "LE" :> 39 @@ "AND" :> 42 @@ "OR" :> 43 @@
             "DOT" :> 44)
        ShiftMap7 ==
            ("LET" :> 8 @@ "CALL" :> 9 @@ "IF" :> 10 @@ "ELSE" :> 77 @@
             "END" :> 76 @@ "FOR" :> 11)
        ShiftMap8 ==
            ("EQ" :> 36 @@ "NE" :> 37 @@ "GT" :> 40 @@ "LT" :> 38 @@
             "GE" :> 41 @@ "LE" :> 39 @@ "AND" :> 42)
        GotoMap2 ==
            [argument_list |-> 53, empty |-> 54, argument |-> 55,
             arguments |-> 78]
        ShiftMap9 ==
            ("DO" :> 81 @@ "EQ" :> 36 @@ "NE" :> 37 @@ "GT" :> 40 @@
             "LT" :> 38 @@ "GE" :> 41 @@ "LE" :> 39 @@ "AND" :> 42 @@
             "OR" :> 43 @@ "DOT" :> 44)
        ShiftMap10 ==
            ("LET" :> 8 @@ "CALL" :> 9 @@ "IF" :> 10 @@ "END" :> 88 @@
             "FOR" :> 11)
        ShiftMap11 ==
            ("LET" :> 8 @@ "CALL" :> 9 @@ "IF" :> 10 @@ "END" :> 90 @@
             "FOR" :> 11)
        GotoMap3 ==
            [argument_list |-> 53, empty |-> 54, argument |-> 55,
             arguments |-> 94]
        ReduceOn(lookaheads, rule) == [t \in lookaheads |-> rule]
        Row(shift, reduce, none, accept, goto) ==
            [shift |-> shift, reduce |-> reduce, none |-> none, accept |-> accept,
             goto |-> goto]
    IN
       \* state 0
    << Row(ShiftMap1,
           <<>>, {}, FALSE,
           [script |-> 1] @@ GotoStatements(2, 3)),
       \* state 1
       Row(<<>>, <<>>, {}, TRUE, <<>>),
       \* state 2
       Row(ShiftMap1, ReduceOn({"$end"}, 1), {}, FALSE, GotoStatement(12)),
       \* state 3
       Row(<<>>, ReduceOn(Lookaheads1, 3), {}, FALSE, <<>>),
       \* state 4
       Row(<<>>, ReduceOn(Lookaheads1, 4), {}, FALSE, <<>>),
       \* state 5
       Row(<<>>, ReduceOn(Lookaheads1, 5), {}, FALSE, <<>>),
       \* state 6
       Row(<<>>, ReduceOn(Lookaheads1, 6), {}, FALSE, <<>>),
       \* state 7
       Row(<<>>, ReduceOn(Lookaheads1, 7), {}, FALSE, <<>>),
       \* state 8
       Row(("ID" :> 13), <<>>, {}, FALSE, <<>>),
       \* state 9
       Row(("ID" :> 14), <<>>, {}, FALSE, <<>>),
       \* state 10
       Row(ShiftMap2, <<>>, {}, FALSE, GotoExpression(15)),
       \* state 11
       Row(("ID" :> 32), <<>>, {}, FALSE, <<>>),
       \* state 12
       Row(<<>>, ReduceOn(Lookaheads1, 2), {}, FALSE, <<>>),
       \* state 13
       Row(("ASSIGN" :> 33), <<>>, {}, FALSE, <<>>),
       \* state 14
       Row(("LBRACE" :> 34), <<>>, {}, FALSE, <<>>),
       \* state 15
       Row(ShiftMap3, <<>>, {}, FALSE, <<>>),
       \* state 16
       Row(<<>>, ReduceOn(Lookaheads2, 19), {}, FALSE, <<>>),
       \* state 17
       Row(<<>>, ReduceOn(Lookaheads2, 20), {}, FALSE, <<>>),
       \* state 18
       Row(<<>>, ReduceOn(Lookaheads2, 21), {}, FALSE, <<>>),
       \* state 19
       Row(<<>>, ReduceOn(Lookaheads2, 22), {}, FALSE, <<>>),
       \* state 20
       Row(<<>>, ReduceOn(Lookaheads2, 23), {}, FALSE, <<>>),
       \* state 21
       Row(<<>>, ReduceOn(Lookaheads2, 24), {}, FALSE, <<>>),
       \* state 22
       Row(<<>>, ReduceOn(Lookaheads2, 25), {}, FALSE, <<>>),
       \* state 23
       Row(ShiftMap2, <<>>, {}, FALSE, GotoExpression(45)),
       \* state 24
       Row(ShiftMap2, <<>>, {}, FALSE, GotoExpression(46)),
       \* state 25
       Row(("LPAREN" :> 47), <<>>, {}, FALSE, <<>>),
       \* state 26
       Row(("ID" :> 48), <<>>, {}, FALSE, <<>>),
       \* state 27
       Row(("LBRACE" :> 49), <<>>, {}, FALSE, <<>>),
       \* state 28
       Row(<<>>, ReduceOn(Lookaheads2, 41), {}, FALSE, <<>>),
       \* state 29
       Row(<<>>, ReduceOn(Lookaheads2, 42), {}, FALSE, <<>>),
       \* state 30
       Row(<<>>, ReduceOn(Lookaheads2, 43), {}, FALSE, <<>>),
       \* state 31
       Row(<<>>, ReduceOn(Lookaheads2, 44), {}, FALSE, <<>>),
       \* state 32
       Row(("IN" :> 50), <<>>, {}, FALSE, <<>>),
       \* state 33
       Row(ShiftMap2, <<>>, {}, FALSE, GotoExpression(51)),
       \* state 34
       Row(("ID" :> 56), ReduceOn({"RBRACE"}, 18), {}, FALSE, GotoMap1),
       \* state 35
       Row(ShiftMap1, <<>>, {}, FALSE, GotoStatements(57, 3)),
       \* state 36
       Row(ShiftMap2, <<>>, {}, FALSE, GotoExpression(58)),
       \* state 37
       Row(ShiftMap2, <<>>, {}, FALSE, GotoExpression(59)),
       \* state 38
       Row(ShiftMap2, <<>>, {}, FALSE, GotoExpression(60)),
       \* state 39
       Row(ShiftMap2, <<>>, {}, FALSE, GotoExpression(61)),
       \* state 40
       Row(ShiftMap2, <<>>, {}, FALSE, GotoExpression(62)),
       \* state 41
       Row(ShiftMap2, <<>>, {}, FALSE, GotoExpression(63)),
       \* state 42
       Row(ShiftMap2, <<>>, {}, FALSE, GotoExpression(64)),
       \* state 43
       Row(ShiftMap2, <<>>, {}, FALSE, GotoExpression(65)),
       \* state 44
       Row(("ID" :> 66), <<>>, {}, FALSE, <<>>),
       \* state 45
       Row(ShiftMap4, <<>>, {}, FALSE, <<>>),
       \* state 46
       Row(ShiftMap5, ReduceOn(Lookaheads3, 36), {}, FALSE, <<>>),
       \* state 47
       Row(("RPAREN" :> 68), <<>>, {}, FALSE, <<>>),
       \* state 48
       Row(("LBRACE" :> 69), <<>>, {}, FALSE, <<>>),
       \* state 49
       Row(("ID" :> 71), <<>>, {}, FALSE, [calc_args |-> 70]),
       \* state 50
       Row(ShiftMap2, <<>>, {}, FALSE, GotoExpression(72)),
       \* state 51
       Row(ShiftMap6, ReduceOn(Lookaheads1, 8), {}, FALSE, <<>>),
       \* state 52
       Row(("RBRACE" :> 73), <<>>, {}, FALSE, <<>>),
       \* state 53
       Row(("COMMA" :> 74), ReduceOn({"RBRACE"}, 13), {}, FALSE, <<>>),
       \* state 54
       Row(<<>>, ReduceOn({"RBRACE"}, 14), {}, FALSE, <<>>),
       \* state 55
       Row(<<>>, ReduceOn({"RBRACE", "COMMA"}, 16), {}, FALSE, <<>>),
       \* state 56
       Row(("COLON" :> 75), <<>>, {}, FALSE, <<>>),
       \* state 57
       Row(ShiftMap7, <<>>, {}, FALSE, GotoStatement(12)),
       \* state 58
       Row(<<>>, ReduceOn(Lookaheads3, 27), Lookaheads4, FALSE, <<>>),
       \* state 59
       Row(<<>>, ReduceOn(Lookaheads3, 28), Lookaheads4, FALSE, <<>>),
       \* state 60
       Row(<<>>, ReduceOn(Lookaheads3, 29), Lookaheads4, FALSE, <<>>),
       \* state 61
       Row(<<>>, ReduceOn(Lookaheads3, 30), Lookaheads4, FALSE, <<>>),
       \* state 62
       Row(<<>>, ReduceOn(Lookaheads3, 31), Lookaheads4, FALSE, <<>>),
       \* state 63
       Row(<<>>, ReduceOn(Lookaheads3, 32), Lookaheads4, FALSE, <<>>),
       \* state 64
       Row(ShiftMap5, ReduceOn(Lookaheads3, 33), {}, FALSE, <<>>),
       \* state 65
       Row(ShiftMap8, ReduceOn(Lookaheads5, 34), {}, FALSE, <<>>),
       \* state 66
       Row(<<>>, ReduceOn(Lookaheads2, 35), {}, FALSE, <<>>),
       \* state 67
       Row(<<>>, ReduceOn(Lookaheads2, 26), {}, FALSE, <<>>),
       \* state 68
       Row(<<>>, ReduceOn(Lookaheads2, 37), {}, FALSE, <<>>),
       \* state 69
       Row(("ID" :> 56), ReduceOn({"RBRACE"}, 18), {}, FALSE, GotoMap2),
       \* state 70
       Row(("RBRACE" :> 79), <<>>, {}, FALSE, <<>>),
       \* state 71
       Row(("COLON" :> 80), <<>>, {}, FALSE, <<>>),
       \* state 72
       Row(ShiftMap9, <<>>, {}, FALSE, <<>>),
       \* state 73
       Row(<<>>, ReduceOn(Lookaheads1, 9), {}, FALSE, <<>>),
       \* state 74
       Row(("ID" :> 56), <<>>, {}, FALSE, [argument |-> 82]),
       \* state 75
       Row(ShiftMap2, <<>>, {}, FALSE, GotoExpression(83)),
       \* state 76
       Row(<<>>, ReduceOn(Lookaheads1, 10), {}, FALSE, <<>>),
       \* state 77
       Row(ShiftMap1, <<>>, {}, FALSE, GotoStatements(84, 3)),
       \* state 78
       Row(("RBRACE" :> 85), <<>>, {}, FALSE, <<>>),
       \* state 79
       Row(<<>>, ReduceOn(Lookaheads2, 39), {}, FALSE, <<>>),
       \* state 80
       Row(("STRING" :> 86), <<>>, {}, FALSE, <<>>),
       \* state 81
       Row(ShiftMap1, <<>>, {}, FALSE, GotoStatements(87, 3)),
       \* state 82
       Row(<<>>, ReduceOn({"RBRACE", "COMMA"}, 15), {}, FALSE, <<>>),
       \* state 83
       Row(ShiftMap6, ReduceOn({"RBRACE", "COMMA"}, 17), {}, FALSE, <<>>),
       \* state 84
       Row(ShiftMap10, <<>>, {}, FALSE, GotoStatement(12)),
       \* state 85
       Row(<<>>, ReduceOn(Lookaheads2, 38), {}, FALSE, <<>>),
       \* state 86
       Row(("COMMA" :> 89), <<>>, {}, FALSE, <<>>),
       \* state 87
       Row(ShiftMap11, <<>>, {}, FALSE, GotoStatement(12)),
       \* state 88
       Row(<<>>, ReduceOn(Lookaheads1, 11), {}, FALSE, <<>>),
       \* state 89
       Row(("ID" :> 91), <<>>, {}, FALSE, <<>>),
       \* state 90
       Row(<<>>, ReduceOn(Lookaheads1, 12), {}, FALSE, <<>>),
       \* state 91
       Row(("COLON" :> 92), <<>>, {}, FALSE, <<>>),
       \* state 92
       Row(("LBRACE" :> 93), <<>>, {}, FALSE, <<>>),
       \* state 93
       Row(("ID" :> 56), ReduceOn({"RBRACE"}, 18), {}, FALSE, GotoMap3),
       \* state 94
       Row(("RBRACE" :> 95), <<>>, {}, FALSE, <<>>),
       \* state 95
       Row(<<>>, ReduceOn({"RBRACE"}, 40), {}, FALSE, <<>>)
    >>

\* The entry of the action table for state s and a token type: what
\* actions[state].get(ltype) yields.
LRAction(kind, n) == [kind |-> kind, n |-> n]
\* A variant of Lookup: no precedence is declared, so that an operator after
\* an operation is shifted where the table reduces the operation
LookupWithoutPrecedence(s, ltype) ==
    LET row == Table[s + 1]
        operators == ("EQ" :> 36) @@ ("NE" :> 37) @@ ("LT" :> 38)
                       @@ ("LE" :> 39) @@ ("GT" :> 40) @@ ("GE" :> 41)
                       @@ ("AND" :> 42) @@ ("OR" :> 43)
    IN  IF ltype \in DOMAIN row.shift THEN LRAction("shift", row.shift[ltype])
        ELSE IF ltype \in DOMAIN row.reduce
             THEN IF ltype \in DOMAIN operators
                       /\ row.reduce[ltype] \in (27..34) \cup {36}
                  THEN LRAction("shift", operators[ltype])
                  ELSE LRAction("reduce", row.reduce[ltype])
        ELSE IF row.accept /\ ltype = "$end" THEN LRAction("accept", 0)
        ELSE LRAction("None", 0)
Lookup(s, ltype) ==
    LET row == Table[s + 1]
    IN  IF ltype \in DOMAIN row.shift THEN LRAction("shift", row.shift[ltype])
        ELSE IF ltype \in DOMAIN row.reduce
             THEN LRAction("reduce", row.reduce[ltype])
        ELSE IF row.accept /\ ltype = "$end" THEN LRAction("accept", 0)
        ELSE LRAction("None", 0)
\* defaulted_states: the states whose one entry is a reduction
Defaulted(s) ==
    LET row == Table[s + 1]
    IN  /\ DOMAIN row.reduce # {}
        /\ Cardinality(DOMAIN row.shift) + Cardinality(DOMAIN row.reduce)
             + Cardinality(row.none) + (IF row.accept THEN 1 ELSE 0) = 1
DefaultedRule(s) ==
    LET row == Table[s + 1]
    IN  row.reduce[CHOOSE a \in DOMAIN row.reduce : TRUE]

(***************************************************************************)
(* The state of one Interpreter and of its run of execute(script).         *)
(*   script         the Script handed to execute                           *)
(*   tool_registry  the names registered in self.tool_registry             *)
(*   variables      self.variables                                         *)
(*   stack          the Python call stack of execute: a "block" frame is a *)
(*                  running _execute_statements (its list and the index of *)
(*                  the next statement), a "for" frame a running           *)
(*                  _execute_ForStatement (its list, the index of the next *)
(*                  item, original_value)                                  *)
(*   call_log       the calls made to the outside so far: tool callables   *)
(*                  entered and values handed to the output sink           *)
(*   exc            the exception propagating, if any                      *)
(*   status         "running", "faulted" (an exception is unwinding the    *)
(*                  stack), "completed" (execute returned) or "raised"     *)
(*                  (the exception left execute)                           *)
(***************************************************************************)
VARIABLES script, tool_registry, variables, stack, call_log, exc, status
\* how many times execute() has been called on this Interpreter
VARIABLES executions

interpreterVars ==
    <<script, tool_registry, variables, stack, call_log, exc, status,
      executions>>

(***************************************************************************)
(* The state of one call parse_script(script_content).                     *)
(*   script_content  the script parsed, the sequence of its lexemes        *)
(*   input           the tokens the lexer has still to hand over           *)
(*   statestack      the parser's stack of states                          *)
(*   symstack        the parser's stack of grammar symbols                 *)
(*   lookahead       the lookahead token, NoToken where there is none      *)
(*   lookaheadstack  the tokens put back during error recovery             *)
(*   errorcount      the shifts still needed to leave error recovery       *)
(*   result          what parse_script returned                            *)
(*   output          the diagnostics printed so far                        *)
(*   pstatus         "idle" (no call), "parsing" or "returned"             *)
(***************************************************************************)
VARIABLES script_content, input, statestack, symstack, lookahead,
          lookaheadstack, errorcount, result, output, pstatus

parserVars ==
    <<script_content, input, statestack, symstack, lookahead, lookaheadstack,
      errorcount, result, output, pstatus>>

vars == <<interpreterVars, parserVars>>

\* Whether a name is bound, and to what: what a loop must leave as it found.
VarState(vs, name) ==
    IF name \in DOMAIN vs THEN [bound |-> TRUE, val |-> vs[name]]
    ELSE [bound |-> FALSE, val |-> NoneV]

BlockFrame(stmts) ==
    [kind |-> "block", stmts |-> stmts, pc |-> 1, var |-> "", items |-> <<>>,
     original |-> NoneV, pre |-> VarState(<<>>, "")]
\* A variant of ForFrame: the loop takes the items from the last to the first
ForFrameReversed(node, items, pre) ==
    [kind |-> "for", stmts |-> node.loop_block, pc |-> 1,
     var |-> node.iterator_variable,
     items |-> [i \in 1..Len(items) |-> items[Len(items) + 1 - i]],
     original |-> NoneV, pre |-> pre]
\* pre is not the program's: it records the loop variable's state when the
\* FOR statement began, which the properties below compare against.
ForFrame(node, items, pre) ==
    [kind |-> "for", stmts |-> node.loop_block, pc |-> 1,
     var |-> node.iterator_variable, items |-> items,
     original |-> NoneV, pre |-> pre]

Top == stack[Len(stack)]
Pop(st) == SubSeq(st, 1, Len(st) - 1)
\* the frame on top goes on to its next statement (or item)
Advance(st) == [st EXCEPT ![Len(st)].pc = @ + 1]

\* a statement is about to be executed by _execute_statement
AtStatement ==
    /\ status = "running"
    /\ Len(stack) > 0
    /\ Top.kind = "block"
    /\ Top.pc <= Len(Top.stmts)
Cur == Top.stmts[Top.pc]

\* self.variables[name] = value
Assign(vs, name, value) == (name :> value) @@ vs
\* del self.variables[name]
Delete(vs, name) == [n \in (DOMAIN vs) \ {name} |-> vs[n]]
\* self.variables.get(name)
Get(vs, name) == IF name \in DOMAIN vs THEN vs[name] ELSE NoneV

\* The finally block of _execute_ForStatement.
Restore(vs, name, original_value) ==
    IF original_value.k # "none"
    THEN [ok |-> TRUE, vars |-> Assign(vs, name, original_value)]
    ELSE IF name \in DOMAIN vs
         THEN [ok |-> TRUE, vars |-> Delete(vs, name)]
    ELSE [ok |-> FALSE, vars |-> vs]
KeyError(name) == Exc("KeyError", "KeyError", name, <<>>)

(***************************************************************************)
(* The inputs: the scripts executed, the registries they run against and   *)
(* what the outside answers.                                               *)
(***************************************************************************)
\* The longest list a tool returns.
MaxListLen == 2

D1 == DictV([id |-> IntV(1)])
D2 == DictV([id |-> IntV(2), val |-> IntV(20)])
Elems == {D1, D2, NoneV}
Lists == UNION {[1..n -> Elems] : n \in 0..MaxListLen}

Var(n) == Variable(<<n>>)
ItemId == Variable(<<"item", "id">>)
CallGetList == CallExpression("get_list", <<>>)
Identity(v) == CallExpression("identity", <<Arg("arg", Literal(v))>>)
ToolThatErrors == CallExpression("tool_that_errors", <<>>)
CheckItem == CallStatement("check_item", <<Arg("item_id", ItemId)>>)
Process(e) == CallStatement("process", <<Arg("value", e)>>)
\* A FunctionCall that an "arguments" attribute was attached to by hand.
FunctionCallWith(function_name, arguments) ==
    [type |-> "FunctionCall", function_name |-> function_name,
     arguments |-> arguments]

SetupStatements ==
    { LetStatement("item", Literal(IntV(7))),
      LetStatement("item", CallExpression("process",
                                          <<Arg("value", Literal(IntV(1)))>>)),
      LetStatement("xs", CallGetList),
      LetStatement("xs", Literal(IntV(123))),
      LetStatement("xs", Literal(StrV(<<"a", "b">>))) }

ForStatements ==
    { ForStatement("item", Var("xs"), <<CheckItem>>),
      ForStatement("item", CallGetList, <<CheckItem>>),
      ForStatement("item", Var("item"), <<Process(Var("item"))>>),
      ForStatement("item", Var("xs"),
          << LetStatement("a", Var("item")),
             ForStatement("item", Var("xs"),
                          <<LetStatement("item", Literal(IntV(5)))>>),
             LetStatement("r", Literal(BoolV(TRUE))) >>),
      ForStatement("item", Var("xs"),
          << LetStatement("a", ItemId),
             Process(Var("a")),
             LetStatement("r", Literal(BoolV(TRUE))) >>),
      \* the body re-assigns the loop variable and assigns other names
      ForStatement("item", CallGetList,
          << LetStatement("seen", Var("item")),
             LetStatement("item", Literal(IntV(5))),
             LetStatement("last", Var("item")) >>),
      \* the body re-assigns the variable the list came from
      ForStatement("item", Var("xs"),
          << LetStatement("xs", Literal(IntV(123))),
             Process(Var("item")) >>) }

Conditions ==
    { Literal(BoolV(TRUE)), Literal(BoolV(FALSE)), Literal(IntV(10)),
      Literal(StrV(<<"a">>)), Var("item") }
ThenBlock == <<LetStatement("a", Literal(IntV(11))), Process(Var("a"))>>
ElseBlock == <<LetStatement("a", Literal(IntV(22))), Process(Var("a"))>>
IfStatements ==
    { IfStatement(c, ThenBlock, e) :
        c \in Conditions, e \in {NoBlock, SomeBlock(ElseBlock)} }

LeftOperands == {Identity(IntV(0)), Identity(StrV(<<"a">>))}
RightOperands == {Identity(IntV(0)), Identity(BoolV(TRUE)), ToolThatErrors}
LogicStatements ==
    { LetStatement("r", BinaryOp(op, l, r)) :
        op \in {"AND", "OR"}, l \in LeftOperands, r \in RightOperands }

OtherStatements ==
    { LetStatement("r", BinaryOp(">", Literal(IntV(5)), Literal(StrV(<<"a">>)))),
      LetStatement("r", UnaryOp("NOT", BinaryOp("<", Literal(IntV(1)), Literal(IntV(2))))),
      LetStatement("t", FunctionCall("NOW")),
      CallStatement("unknown_tool", <<Arg("k", Literal(IntV(1)))>>),
      LetStatement("r", CallExpression("unknown_tool", <<>>)),
      CallStatement("tool_that_errors", <<>>),
      FunctionCallWith("PRINT", <<Var("item")>>),
      FunctionCallWith("PRINT", <<Literal(StrV(<<"a">>))>>),
      FunctionCall("PRINT"),
      Literal(IntV(1)),
      LetStatement("a", Literal(IntV(5))),
      \* calls with two arguments: both evaluate, or the first one faults
      CallStatement("process", <<Arg("value", Identity(IntV(0))),
                                 Arg("mode", Identity(StrV(<<"a">>)))>>),
      CallStatement("process", <<Arg("value", Var("a")),
                                 Arg("mode", Literal(StrV(<<"s">>)))>>),
      CallStatement("identity", <<Arg("arg", Literal(IntV(1)))>>),
      CallStatement("process", <<Arg("value", Var("missing")),
                                 Arg("mode", Identity(StrV(<<"a">>)))>>),
      CallStatement("process", <<Arg("value", ToolThatErrors),
                                 Arg("mode", Identity(StrV(<<"a">>)))>>),
      LetStatement("r", CallExpression("identity",
                                       <<Arg("arg", ToolThatErrors)>>)) }

\* CALC blocks: each formula with vars that list x alone, as a literal or as
\* the value of the variable y, and with vars that list x and y
CalcStatements ==
    LET CalcVars ==
            { <<Arg("x", Literal(IntV(4)))>>,
              <<Arg("x", Var("y"))>>,
              <<Arg("x", Literal(IntV(4))), Arg("y", Literal(IntV(2)))>> }
    IN  { LetStatement("r", CalcExpression(f, v)) :
            f \in DOMAIN ParsedFormulas, v \in CalcVars }
            \cup {LetStatement("y", Literal(IntV(2)))}

\* interpreter.variables['dataStruct'], as the member access test presets it
DataStruct ==
    DictV([value |-> IntV(99), nested |-> DictV([level |-> IntV(1)])])
\* LET val = <dotted reference>: references that resolve, that miss a field
\* at the second or at the third segment, and that go through a number
MemberStatements ==
    { LetStatement("val", Variable(path)) :
        path \in { <<"dataStruct", "value">>,
                   <<"dataStruct", "nested", "level">>,
                   <<"dataStruct", "nested", "missing">>,
                   <<"dataStruct", "missing", "level">>,
                   <<"dataStruct", "value", "level">> } }

Statements ==
    SetupStatements \cup ForStatements \cup IfStatements
        \cup LogicStatements \cup OtherStatements \cup CalcStatements
        \cup MemberStatements

\* A script is one or two top-level statements.
Scripts ==
    {<<s>> : s \in Statements} \cup {<<s, t>> : s \in Statements, t \in Statements}

\* ToolRegistry contents: the mock tools, the mock tools without check_item,
\* and the empty registry the constructor defaults to.
Registries == {ToolNames, ToolNames \ {"check_item"}, {}}

\* Whether evaluating an expression can reach a tool (by name) or the output
\* sink ("PRINT"): only then does the outside's answer matter to the step.
RECURSIVE Mentions(_, _)
Mentions(node, what) ==
    CASE node.type \in {"BinaryOp"} ->
            Mentions(node.left, what) \/ Mentions(node.right, what)
      [] node.type = "UnaryOp" -> Mentions(node.operand, what)
      [] node.type = "FunctionCall" ->
            IF HasAttr(node, "arguments")
            THEN \/ node.function_name = what
                 \/ \E i \in 1..Len(node.arguments) : Mentions(node.arguments[i], what)
            ELSE FALSE
      [] node.type \in {"CallExpression", "CallStatement"} ->
            \/ node.tool_name = what
            \/ \E i \in 1..Len(node.arguments) : Mentions(node.arguments[i].expr, what)
      [] OTHER -> FALSE

\* What a failing output sink may raise: the test's message and another.
SinkMessages == {"Handler failed", "Disk full"}

\* What the outside may answer while the expression is evaluated.
Oracles(node) ==
    [list : IF Mentions(node, "get_list") THEN Lists ELSE {<<>>},
     sinkRaises : IF Mentions(node, "PRINT") THEN BOOLEAN ELSE {FALSE},
     sinkMessage : IF Mentions(node, "PRINT") THEN SinkMessages ELSE {""},
     now : {0}]

(***************************************************************************)
(* Interpreter.__init__ and the call execute(script).                      *)
(***************************************************************************)
Init ==
    /\ script \in Scripts
    /\ tool_registry \in Registries
    \* empty, or preset by the caller for a script that reads dataStruct
    /\ variables \in {<<>>} \cup
            (IF \E i \in DOMAIN script : script[i] \in MemberStatements
             THEN {[dataStruct |-> DataStruct]} ELSE {})
    /\ stack = <<BlockFrame(script)>>
    /\ call_log = <<>>
    /\ exc = NoExc
    /\ status = "running"
    /\ executions = 1
    /\ script_content = <<>>
    /\ input = <<>>
    /\ statestack = <<>>
    /\ symstack = <<>>
    /\ lookahead = NoToken
    /\ lookaheadstack = <<>>
    /\ errorcount = 0
    /\ result = NoneNode
    /\ output = <<>>
    /\ pstatus = "idle"

\* A variant of Raise: the exception is dropped and the block goes on with its next statement
RaiseAndGoOn(e) ==
    /\ exc' = e
    /\ status' = "running"
    /\ stack' = Advance(stack)
    /\ UNCHANGED variables

\* A variant of Raise: the bindings of the execution are undone
RaiseAndRollBack(e) ==
    /\ exc' = e
    /\ status' = "faulted"
    /\ variables' = <<>>
    /\ UNCHANGED stack

\* The statement raised: the exception starts to propagate.
Raise(e) ==
    /\ exc' = e
    /\ status' = "faulted"
    /\ UNCHANGED <<variables, stack>>

\* Interpreter._execute_LetStatement
ExecuteLetStatement ==
    /\ AtStatement
    /\ Cur.type = "LetStatement"
    /\ \E o \in Oracles(Cur.value) :
         LET r == Eval(Cur.value, variables, tool_registry, o)
         IN  /\ call_log' = call_log \o r.trace
             /\ IF r.ok
                THEN /\ variables' = Assign(variables, Cur.variable_name, r.val)
                     /\ stack' = Advance(stack)
                     /\ UNCHANGED <<exc, status>>
                ELSE Raise(r.exc)
    /\ UNCHANGED <<parserVars, executions, script, tool_registry>>

\* Interpreter._execute_CallStatement
ExecuteCallStatement ==
    /\ AtStatement
    /\ Cur.type = "CallStatement"
    /\ \E o \in Oracles(Cur) :
         LET r == ExecuteToolCall(Cur.tool_name,
                      EvalArgs(Cur.arguments, 1, <<>>, <<>>,
                               variables, tool_registry, o),
                      tool_registry, o)
         IN  /\ call_log' = call_log \o r.trace
             /\ IF r.ok
                THEN /\ stack' = Advance(stack)
                     /\ UNCHANGED <<variables, exc, status>>
                ELSE Raise(r.exc)
    /\ UNCHANGED <<parserVars, executions, script, tool_registry>>

\* A variant of IfBranch: the condition is coerced to its truthiness
IfBranchTruthy(node, condition_result) ==
    IF Truthy(condition_result) THEN "then"
    ELSE IF ~node.else_block.isNone /\ Len(node.else_block.stmts) > 0 THEN "else"
    ELSE "none"

\* What _execute_IfStatement does with the condition's value: "raise", or
\* the block it executes ("then", "else"), or "none".
IfBranch(node, condition_result) ==
    IF ~IsBool(condition_result) THEN "raise"
    ELSE IF condition_result.v THEN "then"
    ELSE IF ~node.else_block.isNone /\ Len(node.else_block.stmts) > 0 THEN "else"
    ELSE "none"

\* Interpreter._execute_IfStatement
ExecuteIfStatement ==
    /\ AtStatement
    /\ Cur.type = "IfStatement"
    /\ \E o \in Oracles(Cur.condition) :
         LET r == Eval(Cur.condition, variables, tool_registry, o)
             b == IfBranch(Cur, r.val)
         IN  /\ call_log' = call_log \o r.trace
             /\ IF ~r.ok THEN Raise(r.exc)
                ELSE IF b = "raise"
                     THEN Raise(InterpreterError("IfConditionNotBoolean",
                                                 r.val.k, <<>>))
                ELSE /\ stack' =
                          CASE b = "then" -> Append(stack, BlockFrame(Cur.then_block))
                            [] b = "else" ->
                                 Append(stack, BlockFrame(Cur.else_block.stmts))
                            [] b = "none" -> Advance(stack)
                     /\ UNCHANGED <<variables, exc, status>>
    /\ UNCHANGED <<parserVars, executions, script, tool_registry>>

\* A variant of IsIterable: whatever Python iterates (a str too) is accepted
IsIterablePython(iterable_value) == iterable_value.k \in {"list", "str"}

\* isinstance(iterable_value, list)
IsIterable(iterable_value) == IsList(iterable_value)

\* Interpreter._execute_ForStatement up to its loop: the iterable is
\* evaluated (once) and checked.
ExecuteForStatement ==
    /\ AtStatement
    /\ Cur.type = "ForStatement"
    /\ \E o \in Oracles(Cur.iterable) :
         LET r == Eval(Cur.iterable, variables, tool_registry, o)
         IN  /\ call_log' = call_log \o r.trace
             /\ IF ~r.ok THEN Raise(r.exc)
                ELSE IF ~IsIterable(r.val)
                     THEN Raise(InterpreterError("ForExpectedList", r.val.k, <<>>))
                ELSE /\ stack' = Append(stack,
                            ForFrame(Cur, r.val.v,
                                     VarState(variables, Cur.iterator_variable)))
                     /\ UNCHANGED <<variables, exc, status>>
    /\ UNCHANGED <<parserVars, executions, script, tool_registry>>

\* A variant of ForIterate: each turn takes its item from the iterable
\* expression evaluated anew (None where it no longer yields the item)
ForIterateEvaluatesAgain ==
    /\ status = "running"
    /\ Len(stack) > 0
    /\ Top.kind = "for"
    /\ Top.pc <= Len(Top.items)
    /\ LET caller == stack[Len(stack) - 1]
           r == Eval(caller.stmts[caller.pc].iterable, variables, tool_registry,
                     [list |-> Top.items, sinkRaises |-> FALSE,
                      sinkMessage |-> "", now |-> 0])
           item == IF r.ok /\ IsList(r.val) /\ Top.pc <= Len(r.val.v)
                   THEN r.val.v[Top.pc] ELSE NoneV
       IN  variables' = Assign(variables, Top.var, item)
    /\ stack' = Append([stack EXCEPT ![Len(stack)].original = Get(variables, Top.var)],
                       BlockFrame(Top.stmts))
    /\ UNCHANGED <<parserVars, executions, script, tool_registry, call_log, exc, status>>

\* One turn of "for item in iterable_value": original_value is read, the
\* loop variable bound, and the body entered (inside the try).
ForIterate ==
    /\ status = "running"
    /\ Len(stack) > 0
    /\ Top.kind = "for"
    /\ Top.pc <= Len(Top.items)
    /\ variables' = Assign(variables, Top.var, Top.items[Top.pc])
    /\ stack' = Append([stack EXCEPT ![Len(stack)].original = Get(variables, Top.var)],
                       BlockFrame(Top.stmts))
    /\ UNCHANGED <<parserVars, executions, script, tool_registry, call_log, exc, status>>

\* The for loop of _execute_ForStatement is exhausted: the method returns.
ForExit ==
    /\ status = "running"
    /\ Len(stack) > 0
    /\ Top.kind = "for"
    /\ Top.pc > Len(Top.items)
    /\ stack' = Advance(Pop(stack))
    /\ UNCHANGED <<parserVars, executions, script, tool_registry, variables, call_log, exc, status>>

\* Interpreter._execute_FunctionCall
ExecuteFunctionCall ==
    /\ AtStatement
    /\ Cur.type = "FunctionCall"
    /\ \E o \in Oracles(Cur) :
         LET r == EvaluateFunctionCall(Cur,
                      IF PrintsArgument(Cur)
                      THEN Eval(Cur.arguments[1], variables, tool_registry, o)
                      ELSE Returned(NoneV, <<>>), o)
         IN  /\ call_log' = call_log \o r.trace
             /\ IF r.ok
                THEN /\ stack' = Advance(stack)
                     /\ UNCHANGED <<variables, exc, status>>
                ELSE Raise(r.exc)
    /\ UNCHANGED <<parserVars, executions, script, tool_registry>>

\* The node types _execute_statement finds an _execute_<type> method for.
ExecutedTypes ==
    {"LetStatement", "CallStatement", "IfStatement", "ForStatement", "FunctionCall"}

\* Interpreter._execution_not_implemented
ExecutionNotImplemented ==
    /\ AtStatement
    /\ Cur.type \notin ExecutedTypes
    /\ Raise(InterpreterError("ExecutionNotImplemented", Cur.type, <<>>))
    /\ UNCHANGED <<parserVars, executions, script, tool_registry, call_log>>

\* _execute_statements has run its list: it returns to its caller, which is
\* execute, _execute_IfStatement, or the try of _execute_ForStatement, whose
\* finally block then runs.
BlockEnd ==
    /\ status = "running"
    /\ Len(stack) > 0
    /\ Top.kind = "block"
    /\ Top.pc > Len(Top.stmts)
    /\ IF Len(stack) = 1
       THEN /\ stack' = <<>>
            /\ status' = "completed"
            /\ UNCHANGED <<variables, exc>>
       ELSE LET caller == stack[Len(stack) - 1]
                f == Restore(variables, caller.var, caller.original)
            IN  IF caller.kind = "block"
                THEN /\ stack' = Advance(Pop(stack))
                     /\ UNCHANGED <<variables, exc, status>>
                ELSE IF f.ok
                     THEN /\ variables' = f.vars
                          /\ stack' = Advance(Pop(stack))
                          /\ UNCHANGED <<exc, status>>
                ELSE /\ stack' = Pop(Pop(stack))
                     /\ exc' = KeyError(caller.var)
                     /\ status' = IF Len(stack) = 2 THEN "raised" ELSE "faulted"
                     /\ UNCHANGED variables
    /\ UNCHANGED <<parserVars, executions, script, tool_registry, call_log>>

\* The exception leaves one more frame.  Leaving _execute_ForStatement runs
\* its finally block, whose own exception replaces the one propagating.
Unwind ==
    /\ status = "faulted"
    /\ Len(stack) > 0
    /\ LET f == Restore(variables, Top.var, Top.original)
       IN  IF Top.kind = "for"
           THEN IF f.ok
                THEN /\ variables' = f.vars
                     /\ UNCHANGED exc
                ELSE /\ exc' = KeyError(Top.var)
                     /\ UNCHANGED variables
           ELSE UNCHANGED <<variables, exc>>
    /\ stack' = Pop(stack)
    /\ status' = IF Len(stack) = 1 THEN "raised" ELSE "faulted"
    /\ UNCHANGED <<parserVars, executions, script, tool_registry, call_log>>

Next ==
    \/ ExecuteLetStatement
    \/ ExecuteCallStatement
    \/ ExecuteIfStatement
    \/ ExecuteForStatement
    \/ ForIterate
    \/ ForExit
    \/ ExecuteFunctionCall
    \/ ExecutionNotImplemented
    \/ BlockEnd
    \/ Unwind

Spec == Init /\ [][Next]_vars

(***************************************************************************)
(* One Interpreter used for several executions: execute() is called again  *)
(* once the earlier call has returned or raised.                           *)
(***************************************************************************)
\* The most calls of execute() on one Interpreter.
MaxExecutions == 2

\* the scripts of the later calls: one reads a, one passes r to a tool
AgainScripts ==
    { <<LetStatement("seen", Var("a"))>>, <<Process(Var("r"))>> }

\* Interpreter.execute, called on an Interpreter that has executed before:
\* _execute_statements(script.statements) starts, self.variables as it is
ExecuteAgain ==
    /\ status \in {"completed", "raised"}
    /\ executions < MaxExecutions
    /\ executions' = executions + 1
    /\ script' \in AgainScripts
    /\ stack' = <<BlockFrame(script')>>
    /\ exc' = NoExc
    /\ status' = "running"
    /\ UNCHANGED <<parserVars, tool_registry, variables, call_log>>

NextAgain == Next \/ ExecuteAgain

SpecAgain == Init /\ [][NextAgain]_vars

(***************************************************************************)
(* parse_script(script_content): parser.parse, the LR parsing loop of      *)
(* ply's yacc over the tables above.  One action is one turn of the loop.  *)
(***************************************************************************)
\* statestack[-1]
State == statestack[Len(statestack)]
\* A turn of the loop begins by getting the lookahead token where there is
\* none and the state is not a defaulted one: from lookaheadstack if it
\* holds any, else from the lexer, $end standing for the lexer's None.
FetchesToken == ~Defaulted(State) /\ lookahead.type = ""
Lookahead ==
    IF ~FetchesToken THEN lookahead
    ELSE LET got == IF lookaheadstack # <<>>
                    THEN lookaheadstack[Len(lookaheadstack)]
                    ELSE IF input # <<>> THEN Head(input) ELSE NoToken
         IN  IF got.type = "" THEN EndToken ELSE got
InputAfter ==
    IF FetchesToken /\ lookaheadstack = <<>> /\ input # <<>>
    THEN Tail(input) ELSE input
LookaheadStackAfter ==
    IF FetchesToken /\ lookaheadstack # <<>>
    THEN Pop(lookaheadstack) ELSE lookaheadstack
\* t: the table's entry for the state and the lookahead
Entry ==
    IF Defaulted(State) THEN LRAction("reduce", DefaultedRule(State))
    ELSE Lookup(State, Lookahead.type)

\* t > 0: shift the lookahead and go to state t
Shift ==
    /\ pstatus = "parsing"
    /\ Entry.kind = "shift"
    /\ statestack' = Append(statestack, Entry.n)
    /\ symstack' = Append(symstack, Lookahead)
    /\ lookahead' = NoToken
    /\ errorcount' = IF errorcount > 0 THEN errorcount - 1 ELSE errorcount
    /\ input' = InputAfter
    /\ lookaheadstack' = LookaheadStackAfter
    /\ UNCHANGED <<interpreterVars, script_content,
                   result, output, pstatus>>

\* t < 0: reduce by rule -t, calling its p_ function on the right-hand
\* side's symbols.  Where the function raises SyntaxError the parser puts
\* the lookahead back, restores all of the right-hand side but its last
\* symbol, and goes on with the error symbol as the lookahead.
Reduce ==
    /\ pstatus = "parsing"
    /\ Entry.kind = "reduce"
    /\ LET p == Productions[Entry.n + 1]
           kept == Len(symstack) - p.len
           targ == SubSeq(symstack, kept + 1, Len(symstack))
           below == SubSeq(statestack, 1, Len(statestack) - p.len)
           r == CallProduction(p.func, targ)
           sym == [type |-> p.name, value |-> r.value]
       IN  IF ~r.raised
           THEN /\ symstack' = Append(SubSeq(symstack, 1, kept), sym)
                /\ statestack' =
                       Append(below, Table[below[Len(below)] + 1].goto[p.name])
                /\ lookahead' = Lookahead
                /\ lookaheadstack' = LookaheadStackAfter
                /\ output' = output \o r.printed
                /\ UNCHANGED errorcount
           ELSE /\ symstack' = Pop(symstack)
                /\ statestack' = Pop(statestack)
                /\ lookahead' = ErrorSym
                /\ lookaheadstack' = Append(LookaheadStackAfter, Lookahead)
                /\ errorcount' = 3
                /\ UNCHANGED output
    /\ input' = InputAfter
    /\ UNCHANGED <<interpreterVars, script_content,
                   result, pstatus>>

\* t == 0: return the value of the symbol on top of the stack
Accept ==
    /\ pstatus = "parsing"
    /\ Entry.kind = "accept"
    /\ result' = symstack[Len(symstack)].value
    /\ pstatus' = "returned"
    /\ input' = InputAfter
    /\ lookahead' = Lookahead
    /\ lookaheadstack' = LookaheadStackAfter
    /\ UNCHANGED <<interpreterVars, script_content,
                   statestack, symstack, errorcount, output>>

\* t == None.  The error is reported, by p_error, where no error is being
\* recovered from (errorcount is 0; p_error never calls errok): p_error
\* prints the token, or EOF at $end, and does nothing else.
Reported ==
    /\ output' =
           IF errorcount = 0
           THEN Append(output,
                    Diagnostic("syntax_error",
                        IF Lookahead.type = "$end" THEN NoToken ELSE Lookahead))
           ELSE output
    /\ errorcount' = 3

\* case 1: the stack holds the start state alone and the input has not
\* ended: the bad token is discarded and the parser starts over
ErrorDiscard ==
    /\ pstatus = "parsing"
    /\ Entry.kind = "None"
    /\ Len(statestack) <= 1 /\ Lookahead.type # "$end"
    /\ Reported
    /\ lookahead' = NoToken
    /\ lookaheadstack' = <<>>
    /\ input' = InputAfter
    /\ UNCHANGED <<interpreterVars, script_content,
                   statestack, symstack, result, pstatus>>

\* case 2: the input has ended: parse returns None
ErrorAtEnd ==
    /\ pstatus = "parsing"
    /\ Entry.kind = "None"
    /\ Lookahead.type = "$end"
    /\ Reported
    /\ result' = NoneNode
    /\ pstatus' = "returned"
    /\ input' = InputAfter
    /\ lookahead' = Lookahead
    /\ lookaheadstack' = LookaheadStackAfter
    /\ UNCHANGED <<interpreterVars, script_content,
                   statestack, symstack>>

\* case 3, the lookahead is a token: it is put back and the error symbol
\* made the lookahead, unless the stack's top is already the error symbol,
\* and then the token is dropped
ErrorSymbol ==
    /\ pstatus = "parsing"
    /\ Entry.kind = "None"
    /\ Len(statestack) > 1
    /\ Lookahead.type \notin {"$end", "error"}
    /\ Reported
    /\ IF symstack[Len(symstack)].type = "error"
       THEN /\ lookahead' = NoToken
            /\ lookaheadstack' = LookaheadStackAfter
       ELSE /\ lookahead' = ErrorSym
            /\ lookaheadstack' = Append(LookaheadStackAfter, Lookahead)
    /\ input' = InputAfter
    /\ UNCHANGED <<interpreterVars, script_content,
                   statestack, symstack, result, pstatus>>

\* case 3, the lookahead is the error symbol: no state takes it (the grammar
\* has no rule with error), so the stack is popped
ErrorPop ==
    /\ pstatus = "parsing"
    /\ Entry.kind = "None"
    /\ Len(statestack) > 1
    /\ Lookahead.type = "error"
    /\ Reported
    /\ symstack' = Pop(symstack)
    /\ statestack' = Pop(statestack)
    /\ UNCHANGED <<interpreterVars, script_content,
                   input, lookahead, lookaheadstack, result, pstatus>>

(***************************************************************************)
(* The scripts parsed, each the sequence of its lexemes: scripts of every   *)
(* statement and expression form, well-formed and not, and each of them    *)
(* with one lexeme left out or one stray lexeme put in at any place.       *)
(***************************************************************************)
\* the literals of LET v = L: numbers, strings, booleans
Literals == DOMAIN Numerals \cup DOMAIN Unquoted \cup {"TRUE", "FALSE"}
BaseScripts ==
    LET Let(name, n) == <<"LET", name, "=", n>>
        CallFoo == <<"CALL", "foo", "{", "}">>
        Calc(formula_key, vars_key) ==
            <<"LET", "r", "=", "CALC", "{", formula_key, ":", "\"a\"", ",",
              vars_key, ":", "{", "a", ":", "1", "}", "}">>
    IN
    { <<>>,
      Let("x", "1"),
      Let("x", "1") \o Let("y", "2"),
      Let("x", "1") \o <<")">> \o Let("y", "2"),
      <<"IF", "x", ">", "1", "THEN">> \o CallFoo \o <<"END">>,
      Let("x", "5") \o <<"IF", "x", ">", "THEN">> \o CallFoo \o <<"END">>,
      <<"FOR", "item", "IN", "xs", "DO", "CALL", "check", "{", "id", ":",
        "item", ".", "id", "}", "END">>,
      Calc("formula", "vars"),
      Calc("expr", "vars"),
      Calc("formula", "names") \o Let("y", "2"),
      <<"LET", "t", "=", "NOW", "(", ")">>,
      <<"IF", "NOT", "a", "AND", "b", "==", "c", "OR", "TRUE", "THEN">>
          \o Let("y", "1") \o <<"ELSE">> \o Let("y", "2") \o <<"END">>,
      <<"LET", "x", "=", "a", "==", "b", ".", "c">>,
      <<"LET", "x", "=", "a", "<", "b", "<", "c">>,
      <<"LET", "x", "=", "(", "a", "!=", "\"s\"", ")">>,
      <<"CALL", "foo", "{", "a", ":", "1", ",", "a", ":", "2", "}">>,
      <<"PRINT", "(", "\"x\"", ")">>,
      \* reserved words in lowercase
      <<"let", "x", "=", "5">>,
      <<"IF", "x", ">", "5", "then", "CALL", "y", "{", "}", "END">>,
      Let("flag", "true"),
      Let("flag", "false"),
      \* chained comparisons, alone and before another statement
      <<"LET", "x", "=", "a", "==", "b", "!=", "c">>,
      <<"LET", "x", "=", "a", "<", "b", "<", "c">> \o Let("y", "2"),
      \* operators side by side
      <<"LET", "r", "=", "a", "OR", "b", "AND", "c">>,
      <<"LET", "r", "=", "NOT", "a", "AND", "b">>,
      <<"LET", "r", "=", "NOT", "a", "==", "b">>,
      <<"LET", "r", "=", "a", "AND", "b", "AND", "c">>,
      <<"LET", "r", "=", "a", "OR", "b", "OR", "c">>,
      <<"LET", "r", "=", "(", "a", "OR", "b", ")", "AND", "c">>,
      <<"LET", "r", "=", "NOT", "(", "a", "AND", "b", ")">>,
      \* a dotted path as an operand
      <<"LET", "r", "=", "x", "AND", "a", ".", "b">>,
      <<"LET", "r", "=", "x", "OR", "a", ".", "b">>,
      <<"LET", "r", "=", "NOT", "a", ".", "b">>,
      <<"LET", "r", "=", "a", ".", "b", "==", "x">>,
      \* chains of member accesses
      <<"LET", "rarityValue", "=", "NftData", ".", "details", ".", "rarity">>,
      <<"LET", "itemValue", "=", "item", ".", "VALUE">>,
      <<"LET", "v", "=", "a", ".", "b", ".", "c", ".", "d">>,
      \* blocks without a statement
      <<"IF", "c", "THEN", "END">>,
      <<"IF", "c", "THEN">> \o Let("y", "1") \o <<"ELSE", "END">>,
      <<"FOR", "x", "IN", "xs", "DO", "END">>,
      \* member access on a call
      <<"LET", "r", "=", "CALL", "t", "{", "}", ".", "f">> }
      \cup {Let("v", literal) : literal \in Literals}
ScriptInputs ==
    LET StrayLexemes == {")", "END", "LET"}
        LeftOut(s, i) == SubSeq(s, 1, i - 1) \o SubSeq(s, i + 1, Len(s))
        PutIn(s, i, t) == SubSeq(s, 1, i) \o <<t>> \o SubSeq(s, i + 1, Len(s))
    IN  BaseScripts
          \cup UNION {{LeftOut(s, i) : i \in 1..Len(s)} : s \in BaseScripts}
          \cup UNION {{PutIn(s, i, t) : i \in 0..Len(s), t \in StrayLexemes} :
                         s \in BaseScripts}
\* the tokens lexer.token() hands over, one after the other
Tokens(lexemes) == [i \in 1..Len(lexemes) |-> Token(lexemes[i])]

\* parser.parse(script_content, lexer=lexer) begins
InitParse ==
    /\ script_content \in ScriptInputs
    /\ input = Tokens(script_content)
    /\ statestack = <<0>>
    /\ symstack = <<EndToken>>
    /\ lookahead = NoToken
    /\ lookaheadstack = <<>>
    /\ errorcount = 0
    /\ result = NoneNode
    /\ output = <<>>
    /\ pstatus = "parsing"
    /\ script = <<>>
    /\ tool_registry = {}
    /\ variables = <<>>
    /\ stack = <<>>
    /\ call_log = <<>>
    /\ exc = NoExc
    /\ status = "idle"
    /\ executions = 0

NextParse ==
    \/ Shift
    \/ Reduce
    \/ Accept
    \/ ErrorDiscard
    \/ ErrorAtEnd
    \/ ErrorSymbol
    \/ ErrorPop

SpecParse == InitParse /\ [][NextParse]_vars



(***************************************************************************)
(* Properties of Interpreter.execute.                                      *)
(***************************************************************************)
IsPrefix(s, t) == Len(s) <= Len(t) /\ SubSeq(t, 1, Len(s)) = s
Terminated == status \in {"completed", "raised"}
\* _execute_ForStatement invocations that end in this step
EndingLoops == {i \in (Len(stack') + 1)..Len(stack) : stack[i].kind = "for"}

\* C1: when a FOR statement ends, by running out of items or by a fault in
\* its body, its loop variable is in the state it was in when the statement
\* began: absent if it was absent, else bound to the same value (None too).
C1_LoopVariableRestored ==
    [][\A i \in EndingLoops :
          VarState(variables', stack[i].var) = stack[i].pre]_vars

\* C2: an exception that leaves execute is an InterpreterError.
C2_OnlyInterpreterErrorEscapes ==
    status = "raised" => exc.cls = "InterpreterError"

\* C3: once an exception has been raised nothing of the program runs: the
\* raising statement assigns nothing, and afterwards no call is made, no
\* frame goes on to a statement or an item, and a variable changes only as
\* the loop variable of the FOR statement being left.
C3_NothingRunsAfterFault ==
    [][/\ (exc = NoExc /\ exc' # NoExc) =>
             /\ variables' = variables
             /\ status' \in {"faulted", "raised"}
             /\ IsPrefix(stack', stack)
       /\ exc # NoExc =>
             /\ call_log' = call_log
             /\ status' \in {"faulted", "raised"}
             /\ Len(stack') < Len(stack) /\ IsPrefix(stack', stack)
             /\ \A n \in DOMAIN variables \cup DOMAIN variables' :
                   VarState(variables', n) # VarState(variables, n)
                       => Top.kind = "for" /\ Top.var = n]_vars
C3_FaultLeavesTheRestUnrun ==
    /\ status = "raised"
    /\ Len(script) = 2
    /\ script[1].type = "ForStatement"
    /\ Len(call_log) > 0
    /\ script[2] = LetStatement("a", Literal(IntV(5)))
    /\ "a" \notin DOMAIN variables

IfReached ==
    /\ script[Len(script)].type = "IfStatement"
    /\ Len(script) = 2 => /\ script[1].type = "LetStatement"
                          /\ script[1].variable_name = "item"
                          /\ "item" \in DOMAIN variables
    /\ \/ script[Len(script)].condition.type = "Literal"
       \/ /\ script[Len(script)].condition = Var("item")
          /\ "item" \in DOMAIN variables
ConditionValue ==
    IF script[Len(script)].condition.type = "Literal"
    THEN script[Len(script)].condition.value
    ELSE variables["item"]
Called(tool_name, args) ==
    \E i \in 1..Len(call_log) : call_log[i] = ToolEvent(tool_name, args)
\* what the then-block and the else-block leave behind them
ThenRan == VarState(variables, "a") = [bound |-> TRUE, val |-> IntV(11)]
ElseRan == VarState(variables, "a") = [bound |-> TRUE, val |-> IntV(22)]

\* C6: IF dispatches on a strict boolean.  When execute is over, a true
\* condition has run the then-block and not the else-block, a false one the
\* else-block and not the then-block (neither where there is no else-block),
\* and any other value has raised the IF fault with neither block run.
C6_IfStrictBoolean ==
    (Terminated /\ IfReached) =>
        LET node == script[Len(script)]
            c == ConditionValue
        IN  CASE c = BoolV(TRUE) ->
                    /\ ThenRan
                    /\ ~Called("process", [value |-> IntV(22)])
                    /\ "process" \in tool_registry
                         => status = "completed"
                            /\ Called("process", [value |-> IntV(11)])
              [] c = BoolV(FALSE) /\ ~node.else_block.isNone ->
                    /\ ElseRan
                    /\ ~Called("process", [value |-> IntV(11)])
                    /\ "process" \in tool_registry
                         => status = "completed"
                            /\ Called("process", [value |-> IntV(22)])
              [] c = BoolV(FALSE) /\ node.else_block.isNone ->
                    /\ status = "completed"
                    /\ "a" \notin DOMAIN variables
                    /\ ~Called("process", [value |-> IntV(11)])
              [] OTHER ->
                    /\ status = "raised"
                    /\ exc = InterpreterError("IfConditionNotBoolean", c.k, <<>>)
                    /\ "a" \notin DOMAIN variables
                    /\ ~Called("process", [value |-> IntV(11)])
                    /\ ~Called("process", [value |-> IntV(22)])
\* IF 10 THEN ... ELSE ... END has faulted, and no block has run
C6_NumberConditionFaults ==
    /\ status = "raised"
    /\ IfReached
    /\ ConditionValue = IntV(10)
    /\ ~script[Len(script)].else_block.isNone
    /\ exc.what = "IfConditionNotBoolean"
    /\ variables = <<>>

\* The calls FOR item IN <items> DO CALL check_item {item_id: item.id} END
\* is to make of check_item.
CheckCalls(items) ==
    [i \in 1..Len(items) |-> ToolEvent("check_item", [item_id |-> items[i].v.id])]
HaveIds(items) ==
    \A i \in 1..Len(items) : IsDict(items[i]) /\ "id" \in DOMAIN items[i].v
GetListCall == ToolEvent("get_list", <<>>)

\* C7: FOR item IN <list> DO CALL check_item {item_id: item.id} END calls
\* check_item once for each element of the list, in the list's order, with
\* the element's id, and after the call that produced the list: the calls
\* made so far are always a prefix of that sequence, and all of it when the
\* loop is over.
C7_OncePerElementInOrder ==
    /\ (/\ script = <<LetStatement("xs", CallGetList),
                      ForStatement("item", Var("xs"), <<CheckItem>>)>>
        /\ tool_registry = ToolNames
        /\ "xs" \in DOMAIN variables
        /\ HaveIds(variables["xs"].v)) =>
           LET expected == <<GetListCall>> \o CheckCalls(variables["xs"].v)
           IN  /\ IsPrefix(call_log, expected)
               /\ Terminated => status = "completed" /\ call_log = expected
    /\ (/\ script = <<ForStatement("item", CallGetList, <<CheckItem>>)>>
        /\ tool_registry = ToolNames
        /\ Len(stack) >= 2
        /\ HaveIds(stack[2].items)) =>
           LET expected == <<GetListCall>> \o CheckCalls(stack[2].items)
           IN  /\ IsPrefix(call_log, expected)
               /\ stack[2].pc > Len(stack[2].items) => call_log = expected
\* the loop over a list of two elements is over
C7_TwoElementsChecked ==
    /\ script = <<LetStatement("xs", CallGetList),
                  ForStatement("item", Var("xs"), <<CheckItem>>)>>
    /\ status = "completed"
    /\ variables["xs"] = ListV(<<D1, D2>>)
    /\ call_log = << GetListCall,
                     ToolEvent("check_item", [item_id |-> IntV(1)]),
                     ToolEvent("check_item", [item_id |-> IntV(2)]) >>


\* The statement about to run is a tool call, CALL t {...} or LET v = CALL
\* t {...}, whose arguments are literals: the call itself is all it does.
IsToolCall(node) ==
    /\ node.type \in {"CallStatement", "CallExpression"}
    /\ \A i \in 1..Len(node.arguments) : node.arguments[i].expr.type = "Literal"
AtToolCall ==
    /\ AtStatement
    /\ \/ IsToolCall(Cur)
       \/ Cur.type = "LetStatement" /\ IsToolCall(Cur.value)
ToolCalled == IF Cur.type = "LetStatement" THEN Cur.value ELSE Cur

C9_ToolFaultKinds ==
    [][/\ (/\ Len(call_log') > Len(call_log)
           /\ call_log'[Len(call_log')].name = "tool_that_errors") =>
             /\ exc' = InterpreterError("ToolExecutionFailed",
                                        "tool_that_errors", <<>>)
             /\ exc'.what # "ToolNotFound"
             /\ status' = "faulted"
       /\ (exc = NoExc /\ exc'.what = "ToolExecutionFailed") =>
             /\ exc'.cls = "InterpreterError"
             /\ exc'.name \in tool_registry
             /\ Len(call_log') > Len(call_log)
             /\ call_log'[Len(call_log')].name = exc'.name
       /\ (exc = NoExc /\ exc'.what = "ToolNotFound") =>
             /\ exc'.cls = "InterpreterError"
             /\ exc'.name \notin tool_registry]_vars
\* CALL tool_that_errors {} has raised, the callable having been called
C9_ToolThatErrorsRaised ==
    /\ script = <<CallStatement("tool_that_errors", <<>>)>>
    /\ status = "raised"
    /\ exc.what = "ToolExecutionFailed"
    /\ exc.name = "tool_that_errors"
    /\ call_log = <<ToolEvent("tool_that_errors", <<>>)>>

\* C10: a FOR statement whose iterable evaluates to something that is no
\* list raises; it enters no loop (no frame of the body is made, so no
\* statement of the body runs and no tool of it is called) and binds no
\* variable.
C10_ForNonListFaults ==
    [][(AtStatement /\ Cur.type = "ForStatement") =>
          \A o \in Oracles(Cur.iterable) :
             LET r == Eval(Cur.iterable, variables, tool_registry, o)
             IN  (r.ok /\ ~IsList(r.val)) =>
                    /\ status' = "faulted"
                    /\ exc' = InterpreterError("ForExpectedList", r.val.k, <<>>)
                    /\ stack' = stack
                    /\ variables' = variables
                    /\ call_log' = call_log \o r.trace]_vars
\* LET xs = 123, then FOR item IN xs DO CALL check_item ... END, has raised
C10_ForOverNumberRaised ==
    /\ script = <<LetStatement("xs", Literal(IntV(123))),
                  ForStatement("item", Var("xs"), <<CheckItem>>)>>
    /\ status = "raised"
    /\ exc.what = "ForExpectedList"
    /\ call_log = <<>>
    /\ "item" \notin DOMAIN variables

(***************************************************************************)
(* C4.  For every syntactically invalid input, wherever the violation      *)
(* occurs, parse_script returns None: where the parser has reported a      *)
(* syntax error, what parse_script returns is no tree, never a Script of   *)
(* the statements before or after the offending token.                     *)
(***************************************************************************)
SyntaxErrorReported ==
    \E i \in DOMAIN output : output[i].kind = "syntax_error"
C4_InvalidInputReturnsNone ==
    (pstatus = "returned" /\ SyntaxErrorReported) => result.type = "NoneType"

(***************************************************************************)
(* C11.  The output built-in used as a statement, PRINT(e), parses to a    *)
(* built-in call node with exactly one argument (and executing a program   *)
(* passes each PRINT argument's value to the output sink once, in program  *)
(* order): what parse_script returns for PRINT("x") is a Script of one     *)
(* FunctionCall named PRINT that has one argument.                         *)
(***************************************************************************)
PrintScript == <<"PRINT", "(", "\"x\"", ")">>
C11_PrintParsesToBuiltinCall ==
    (pstatus = "returned" /\ script_content = PrintScript)
        => /\ result.type = "Script"
           /\ Len(result.statements) = 1
           /\ result.statements[1].type = "FunctionCall"
           /\ result.statements[1].function_name = "PRINT"
           /\ HasAttr(result.statements[1], "arguments")
           /\ Len(result.statements[1].arguments) = 1

(***************************************************************************)
(* C12.  If the output sink raises while handling a PRINT, execution       *)
(* faults with an InterpreterError that wraps the sink's failure message,  *)
(* and no statement after that PRINT is executed: once the sink has        *)
(* raised, the run is faulted or has raised, the exception is the          *)
(* InterpreterError carrying the sink's message, the sink's failure is the *)
(* last thing that happened outside, and no step binds a variable.         *)
(***************************************************************************)
SinkFailed == \E i \in DOMAIN call_log : call_log[i].ev = "sink_raised"
LastEvent == call_log[Len(call_log)]
NowScript == <<p_let_statement(<<t_ID("LET"), t_ID("t"), SimpleToken("ASSIGN"),
                                 [type |-> "expression",
                                  value |-> p_function_call(<<>>)]>>)>>
C13_NowNeverFaults ==
    (Terminated /\ script = NowScript)
        => /\ status = "completed"
           /\ "t" \in DOMAIN variables
           /\ variables["t"].k = "float"

(***************************************************************************)
(* C14.  A CALC formula can read only the names listed in its own vars: a  *)
(* formula that references a name that is not a vars key faults, the fault *)
(* saying that this name is not defined, even when a variable of that name *)
(* is bound; and the outcome of the CALC is the same in every environment  *)
(* in which the vars sub-expressions evaluate to the same values.          *)
(***************************************************************************)
AtCalc ==
    /\ AtStatement
    /\ Cur.type = "LetStatement"
    /\ Cur.value.type = "CalcExpression"
VarsKeys(node) == {node.variables[i].key : i \in DOMAIN node.variables}
\* the variable names the formula reads, in the order it reads them
FormulaNames(formula) ==
    LET tree == ParsedFormulas[formula]
    IN  IF tree.node = "BinOp"
        THEN SelectSeq(<<tree.left, tree.right>>, LAMBDA a : a.node = "Name")
        ELSE <<>>
Undefined(node) ==
    SelectSeq(FormulaNames(node.formula), LAMBDA a : a.id \notin VarsKeys(node))
NoOracle == [list |-> <<>>, sinkRaises |-> FALSE, sinkMessage |-> "", now |-> 0]
EvaluatedVars(node, environment) ==
    EvalArgs(node.variables, 1, <<>>, <<>>, environment, tool_registry, NoOracle)
Environments ==
    { <<>>, [y |-> IntV(2)], [y |-> IntV(7)],
      [x |-> IntV(9), y |-> IntV(2)], [y |-> IntV(2), f |-> IntV(1)] }
Cause(node) ==
    LET tree == ParsedFormulas[node.formula]
    IN  IF tree.node = "SyntaxError" THEN "syntax"
        ELSE IF tree.node = "Call" THEN "function"
        ELSE IF Undefined(node) # <<>> THEN "name"
        ELSE IF tree.node = "BinOp" /\ tree.op = "/"
                  /\ tree.right.node = "Num" /\ tree.right.n = 0
             THEN "zero"
        ELSE "none"
CalcFaulted ==
    /\ status = "raised"
    /\ Len(script) = 1
    /\ script[1].type = "LetStatement"
    /\ script[1].value.type = "CalcExpression"
    /\ EvaluatedVars(script[1].value, variables).ok
    /\ Cause(script[1].value) # "none"
C15_FormulaFaultKindsDistinct ==
    CalcFaulted =>
        /\ exc.cls = "InterpreterError"
        /\ \A st \in CalcStatements :
             (/\ st.value.type = "CalcExpression"
              /\ EvaluatedVars(st.value, variables).ok
              /\ Cause(st.value) \notin {"none", Cause(script[1].value)})
               => Eval(st.value, variables, tool_registry, NoOracle).exc.what
                    # exc.what


(***************************************************************************)
(* C16.  Evaluating a dotted reference faults whenever the base variable   *)
(* is unbound, an intermediate value is not a dictionary or a field is     *)
(* missing: the statement raises an InterpreterError that names the        *)
(* segment that failed and the path resolved before it (for an unbound     *)
(* base, the base and the whole reference), and no value is bound.         *)
(***************************************************************************)
AtMember ==
    /\ AtStatement
    /\ Cur.type = "LetStatement"
    /\ Cur.value.type = "Variable"
    /\ Len(Cur.value.name) > 1
\* what the first k segments of the path denote, the environment being what
\* no segment denotes; "unresolved" where a segment is unbound or missing
Denoted(path, k) ==
    LET D[i \in 0..Len(path)] ==
            IF i = 0 THEN DictV(variables)
            ELSE IF IsDict(D[i - 1]) /\ path[i] \in DOMAIN D[i - 1].v
                 THEN D[i - 1].v[path[i]]
            ELSE [k |-> "unresolved", v |-> 0]
    IN  D[k]
FailingSegments(path) ==
    {k \in 1..Len(path) : Denoted(path, k).k = "unresolved"}
FailingSegment(path) ==
    CHOOSE k \in FailingSegments(path) : \A j \in FailingSegments(path) : k <= j
C16_DottedReferenceFaults ==
    [][(AtMember /\ FailingSegments(Cur.value.name) # {}) =>
         LET path == Cur.value.name
             k == FailingSegment(path)
         IN  /\ status' = "faulted"
             /\ variables' = variables
             /\ exc'.cls = "InterpreterError"
             /\ exc'.name = path[k]
             /\ exc'.path = IF k = 1 THEN path ELSE SubSeq(path, 1, k - 1)
             /\ exc'.what =
                   IF k = 1 THEN "VariableNotFoundForMemberAccess"
                   ELSE IF IsDict(Denoted(path, k - 1)) THEN "MemberNotFound"
                   ELSE "CannotAccessMember"]_vars
\* dataStruct.nested.missing has faulted at its third segment
C16_ThirdSegmentMissing ==
    /\ status \in {"faulted", "raised"}
    /\ Len(script) = 1
    /\ script[1] = LetStatement("val", Variable(<<"dataStruct", "nested", "missing">>))
    /\ exc = InterpreterError("MemberNotFound", "missing", <<"dataStruct", "nested">>)
    /\ "val" \notin DOMAIN variables

(***************************************************************************)
(* C17.  Reserved words are recognised in uppercase only: the lowercase    *)
(* spelling of every keyword and boolean literal is scanned as an ID, so   *)
(* LET flag = true parses to a LET whose value is the variable named true, *)
(* while let x = 5 and an IF with a lowercase then return no tree.         *)
(***************************************************************************)
LowerLetScript == <<"let", "x", "=", "5">>
LowerThenScript ==
    <<"IF", "x", ">", "5", "then", "CALL", "y", "{", "}", "END">>
LowerTrueScript == <<"LET", "flag", "=", "true">>
Comparisons == {"==", "!=", "<", "<=", ">", ">="}
\* an operand between two comparison operators, none of them in parentheses
ChainsComparisons(lexemes) ==
    /\ \A i \in DOMAIN lexemes : lexemes[i] \notin {"(", ")"}
    /\ \E i \in DOMAIN lexemes :
         /\ i + 2 \in DOMAIN lexemes
         /\ lexemes[i] \in Comparisons
         /\ lexemes[i + 2] \in Comparisons
         /\ Token(lexemes[i + 1]).type = "ID"
C18_ChainedComparisonYieldsNoTree ==
    (pstatus = "returned" /\ ChainsComparisons(script_content))
        => /\ SyntaxErrorReported
           /\ result = NoneNode
\* the chained comparison is reported as a syntax error wherever it stands
C18_ChainedComparisonReported ==
    (pstatus = "returned" /\ ChainsComparisons(script_content))
        => SyntaxErrorReported

(***************************************************************************)
(* C19.  Operator precedence, from the loosest to the tightest binding, is *)
(* OR, AND, NOT, comparison, and OR and AND group to the left:             *)
(* a OR b AND c is a OR (b AND c), NOT a AND b is (NOT a) AND b,           *)
(* NOT a == b is NOT (a == b), a AND b AND c is (a AND b) AND c,           *)
(* a OR b OR c is (a OR b) OR c, and parentheses override the grouping.    *)
(***************************************************************************)
Grouping ==
    LET a == Variable(<<"a">>)
        b == Variable(<<"b">>)
        c == Variable(<<"c">>)
    IN  (<<"a", "OR", "b", "AND", "c">>
             :> BinaryOp("OR", a, BinaryOp("AND", b, c)))
        @@ (<<"NOT", "a", "AND", "b">>
             :> BinaryOp("AND", UnaryOp("NOT", a), b))
        @@ (<<"NOT", "a", "==", "b">>
             :> UnaryOp("NOT", BinaryOp("==", a, b)))
        @@ (<<"a", "AND", "b", "AND", "c">>
             :> BinaryOp("AND", BinaryOp("AND", a, b), c))
        @@ (<<"a", "OR", "b", "OR", "c">>
             :> BinaryOp("OR", BinaryOp("OR", a, b), c))
        @@ (<<"(", "a", "OR", "b", ")", "AND", "c">>
             :> BinaryOp("AND", BinaryOp("OR", a, b), c))
        @@ (<<"NOT", "(", "a", "AND", "b", ")">>
             :> UnaryOp("NOT", BinaryOp("AND", a, b)))
C19_OperatorPrecedence ==
    \A expression \in DOMAIN Grouping :
        (pstatus = "returned"
            /\ script_content = <<"LET", "r", "=">> \o expression)
          => /\ result = Script(<<LetStatement("r", Grouping[expression])>>)
             /\ output = <<>>
\* a AND b AND c has been parsed: its left operand is an operation
C19_LeftGroupedAnd ==
    /\ pstatus = "returned"
    /\ script_content = <<"LET", "r", "=", "a", "AND", "b", "AND", "c">>
    /\ result.type = "Script"
    /\ result.statements[1].value.left.type = "BinaryOp"

(***************************************************************************)
(* C20.  Dotted member access binds tighter than every operator: where a   *)
(* dotted path is the right operand of a comparison, of AND or of OR, or   *)
(* the operand of NOT, the operand in the tree is the variable reference   *)
(* with the dotted name.                                                   *)
(***************************************************************************)
DottedOperand ==
    LET x == Variable(<<"x">>)
        a_b == Variable(<<"a", "b">>)
    IN  (<<"LET", "r", "=", "x", "AND", "a", ".", "b">>
             :> BinaryOp("AND", x, a_b))
        @@ (<<"LET", "r", "=", "x", "OR", "a", ".", "b">>
             :> BinaryOp("OR", x, a_b))
        @@ (<<"LET", "r", "=", "NOT", "a", ".", "b">>
             :> UnaryOp("NOT", a_b))
        @@ (<<"LET", "x", "=", "a", "==", "b", ".", "c">>
             :> BinaryOp("==", Variable(<<"a">>), Variable(<<"b", "c">>)))
C20_MemberAccessBindsTightest ==
    \A lexemes \in DOMAIN DottedOperand :
        (pstatus = "returned" /\ script_content = lexemes)
          => result = Script(<<LetStatement(lexemes[2], DottedOperand[lexemes])>>)

(***************************************************************************)
(* C21.  A chain of member accesses on a variable, of any depth, is folded *)
(* by the parser into one Variable node whose name is the whole dotted     *)
(* path, each segment as it was written; no operator node stands for the   *)
(* access.  (The name is kept as the sequence of its segments.)            *)
(***************************************************************************)
\* the segments of a chain base . f1 . f2 ..., or <<>> for other lexemes
Segments(lexemes) ==
    IF /\ Len(lexemes) % 2 = 1
       /\ Len(lexemes) >= 3
       /\ \A i \in DOMAIN lexemes :
            IF i % 2 = 0 THEN lexemes[i] = "."
            ELSE Token(lexemes[i]).type = "ID"
    THEN [i \in 1..((Len(lexemes) + 1) \div 2) |-> lexemes[2 * i - 1]]
    ELSE <<>>
IsLetOfChain(lexemes) ==
    /\ Len(lexemes) > 3
    /\ SubSeq(lexemes, 1, 1) = <<"LET">>
    /\ Token(lexemes[2]).type = "ID"
    /\ lexemes[3] = "="
    /\ Segments(SubSeq(lexemes, 4, Len(lexemes))) # <<>>
C21_MemberChainFolded ==
    (pstatus = "returned" /\ IsLetOfChain(script_content))
        => /\ result = Script(<<LetStatement(script_content[2],
                   Variable(Segments(SubSeq(script_content, 4,
                                            Len(script_content)))))>>)
           /\ output = <<>>
\* NftData.details.rarity has been parsed to one Variable of three segments
C21_ThreeSegmentsFolded ==
    /\ pstatus = "returned"
    /\ script_content =
         <<"LET", "rarityValue", "=", "NftData", ".", "details", ".", "rarity">>
    /\ result.type = "Script"
    /\ result.statements[1].value
         = Variable(<<"NftData", "details", "rarity">>)

(***************************************************************************)
(* C22.  For every valid literal L (integer, float, double-quoted string   *)
(* with backslash escapes, TRUE or FALSE), executing LET v = L and then    *)
(* looking up v yields exactly the value L denotes, of the kind L has.     *)
(***************************************************************************)
\* the value each literal denotes
Denotes ==
    ("1" :> IntV(1)) @@ ("2" :> IntV(2)) @@ ("5" :> IntV(5))
    @@ ("10" :> IntV(10)) @@ ("007" :> IntV(7))
    @@ ("3.14159" :> [k |-> "float", v |-> <<314159, 5>>])
    @@ ("1.0" :> [k |-> "float", v |-> <<10, 1>>])
    @@ ("TRUE" :> BoolV(TRUE)) @@ ("FALSE" :> BoolV(FALSE))
    @@ ("\"a\"" :> StrV(<<"a">>)) @@ ("\"s\"" :> StrV(<<"s">>))
    @@ ("\"x\"" :> StrV(<<"x">>))
    @@ ("\"test\"" :> StrV(<<"t", "e", "s", "t">>))
    @@ ("\"a\\\"b\"" :> StrV(<<"a", "\"", "b">>))
    @@ ("\"a\\nb\"" :> StrV(<<"a", "\n", "b">>))
    @@ ("\"U+00E9\"" :> StrV(<<"U+00E9">>))
\* v looked up after the LET of the returned tree has been executed
LookedUp ==
    LET let == result.statements[1]
        r == Eval(let.value, <<>>, {}, NoOracle)
    IN  IF r.ok THEN Assign(<<>>, let.variable_name, r.val)["v"] ELSE NoneV
RoundTrips(literal) ==
    (pstatus = "returned" /\ script_content = <<"LET", "v", "=", literal>>)
        => /\ result.type = "Script"
           /\ Len(result.statements) = 1
           /\ result.statements[1].type = "LetStatement"
           /\ LookedUp = Denotes[literal]
C22_LiteralRoundTrip ==
    /\ DOMAIN Denotes = Literals
    /\ \A literal \in Literals : RoundTrips(literal)
\* every literal written in ASCII alone does round-trip
C22_AsciiLiteralRoundTrip ==
    \A literal \in Literals \ {"\"U+00E9\""} : RoundTrips(literal)

(***************************************************************************)
(* C23.  Every top-level execution starts from an empty environment: when  *)
(* execute() is called, no binding made by an earlier execution is         *)
(* visible, that is, the execution begins with no variable bound.          *)
(***************************************************************************)
C23_ExecutionStartsEmpty ==
    [][executions' = executions + 1 => variables' = <<>>]_vars
\* what holds instead: the bindings of the earlier execution are all there
\* when the next one begins
C23_BindingsCarriedOver ==
    [][executions' = executions + 1 => variables' = variables]_vars
\* the second execution has read a, which the first one bound
C23_EarlierBindingRead ==
    /\ executions = 2
    /\ status = "completed"
    /\ script = <<LetStatement("seen", Var("a"))>>
    /\ "seen" \in DOMAIN variables

(***************************************************************************)
(* C24.  The grammar accepts zero statements wherever a statement sequence *)
(* appears: the empty script parses to a Script with no statements, and    *)
(* IF c THEN END, IF c THEN s ELSE END and FOR x IN e DO END parse to the  *)
(* statement with an empty block.                                          *)
(***************************************************************************)
EmptyBlocks ==
    LET c == Variable(<<"c">>)
        s == LetStatement("y", Literal(IntV(1)))
    IN  (<<>> :> <<>>)
        @@ (<<"IF", "c", "THEN", "END">> :> <<IfStatement(c, <<>>, NoBlock)>>)
        @@ (<<"IF", "c", "THEN", "LET", "y", "=", "1", "ELSE", "END">>
              :> <<IfStatement(c, <<s>>, SomeBlock(<<>>))>>)
        @@ (<<"FOR", "x", "IN", "xs", "DO", "END">>
              :> <<ForStatement("x", Variable(<<"xs">>), <<>>)>>)
C24_EmptySequencesParse ==
    \A lexemes \in DOMAIN EmptyBlocks :
        (pstatus = "returned" /\ script_content = lexemes)
          => result = Script(EmptyBlocks[lexemes])
\* what holds instead: each of these scripts is a syntax error without a tree
C24_EmptySequencesRejected ==
    \A lexemes \in DOMAIN EmptyBlocks :
        (pstatus = "returned" /\ script_content = lexemes)
          => /\ result = NoneNode
             /\ SyntaxErrorReported

(***************************************************************************)
(* C25.  A CALL statement evaluates its argument expressions in the order  *)
(* written, then invokes the named tool exactly once with the map of the   *)
(* argument names to the values, discards what the tool returns, and       *)
(* leaves the variables as they are: the outside sees what each argument   *)
(* does, in order, and then the one call of the tool.                      *)
(***************************************************************************)
AtCall ==
    /\ AtStatement
    /\ Cur.type = "CallStatement"
    /\ Oracles(Cur) = {NoOracle}
\* argument i of the call, evaluated on its own
Evaluated(i) == Eval(Cur.arguments[i].expr, variables, tool_registry, NoOracle)
\* what the first n arguments do outside, one after the other
ArgumentsTrace(n) ==
    LET T[i \in 0..n] == IF i = 0 THEN <<>> ELSE T[i - 1] \o Evaluated(i).trace
    IN  T[n]
ArgumentsMap ==
    [key \in {Cur.arguments[i].key : i \in DOMAIN Cur.arguments} |->
        Evaluated(CHOOSE i \in DOMAIN Cur.arguments :
                      Cur.arguments[i].key = key).val]
C25_CallStatementFrame ==
    [][(/\ AtCall
        /\ Cur.tool_name \in tool_registry
        /\ \A i \in DOMAIN Cur.arguments : Evaluated(i).ok
        /\ ToolFunc(Cur.tool_name, ArgumentsMap, NoOracle).entered)
       => /\ call_log' = call_log \o ArgumentsTrace(Len(Cur.arguments))
                            \o <<ToolEvent(Cur.tool_name, ArgumentsMap)>>
          /\ variables' = variables
          /\ ~ToolFunc(Cur.tool_name, ArgumentsMap, NoOracle).raised
               => /\ status' = "running"
                  /\ exc' = exc
                  /\ stack' = Advance(stack)]_vars
\* CALL process {value: CALL identity.., mode: CALL identity..} has completed
C25_TwoArgumentsThenTool ==
    /\ status = "completed"
    /\ executions = 1
    /\ Len(script) = 1
    /\ script[1].type = "CallStatement"
    /\ Len(call_log) = 3
    /\ call_log[1] = ToolEvent("identity", [arg |-> IntV(0)])
    /\ call_log[2] = ToolEvent("identity", [arg |-> StrV(<<"a">>)])
    /\ call_log[3] = ToolEvent("process",
                               [value |-> IntV(0), mode |-> StrV(<<"a">>)])
    /\ variables = <<>>

(***************************************************************************)
(* C26.  Every tree parse_script returns is well-formed: each expression   *)
(* position (LET value, IF condition, FOR iterable, the operands of an     *)
(* operator, the arguments of a call and of a CALC) holds an expression    *)
(* node and never None; member access applied to an expression that is not *)
(* a variable does not leave a returned tree with a node missing.          *)
(***************************************************************************)
ExpressionTypes ==
    {"Literal", "Variable", "BinaryOp", "UnaryOp", "FunctionCall",
     "CallExpression", "CalcExpression"}
RECURSIVE WellFormed(_)
WellFormed(node) ==
    CASE node.type = "Script" ->
            \A i \in DOMAIN node.statements : WellFormed(node.statements[i])
      [] node.type = "LetStatement" ->
            node.value.type \in ExpressionTypes /\ WellFormed(node.value)
      [] node.type = "IfStatement" ->
            /\ node.condition.type \in ExpressionTypes
            /\ WellFormed(node.condition)
            /\ \A i \in DOMAIN node.then_block : WellFormed(node.then_block[i])
            /\ \A i \in DOMAIN node.else_block.stmts :
                 WellFormed(node.else_block.stmts[i])
      [] node.type = "ForStatement" ->
            /\ node.iterable.type \in ExpressionTypes
            /\ WellFormed(node.iterable)
            /\ \A i \in DOMAIN node.loop_block : WellFormed(node.loop_block[i])
      [] node.type \in {"CallStatement", "CallExpression"} ->
            \A i \in DOMAIN node.arguments :
                /\ node.arguments[i].expr.type \in ExpressionTypes
                /\ WellFormed(node.arguments[i].expr)
      [] node.type = "CalcExpression" ->
            \A i \in DOMAIN node.variables :
                /\ node.variables[i].expr.type \in ExpressionTypes
                /\ WellFormed(node.variables[i].expr)
      [] node.type = "BinaryOp" ->
            /\ node.left.type \in ExpressionTypes
            /\ node.right.type \in ExpressionTypes
            /\ WellFormed(node.left)
            /\ WellFormed(node.right)
      [] node.type = "UnaryOp" ->
            node.operand.type \in ExpressionTypes /\ WellFormed(node.operand)
      [] OTHER -> node.type \in ExpressionTypes
C26_ReturnedTreeWellFormed ==
    (pstatus = "returned" /\ result.type = "Script") => WellFormed(result)

(***************************************************************************)
(* C27.  If evaluating an argument expression of a tool call faults, the   *)
(* tool is not invoked and the arguments written after the faulting one    *)
(* are not evaluated: the outside sees what the arguments up to the        *)
(* faulting one did and nothing more, and the call raises the argument's   *)
(* exception.  This holds for the call as a statement and as the value of  *)
(* a LET.                                                                  *)
(***************************************************************************)
\* argument i of a call node, evaluated on its own
EvaluatedOf(node, i) ==
    Eval(node.arguments[i].expr, variables, tool_registry, NoOracle)
TraceUpTo(node, n) ==
    LET T[i \in 0..n] ==
            IF i = 0 THEN <<>> ELSE T[i - 1] \o EvaluatedOf(node, i).trace
    IN  T[n]
Faulting(node) == {i \in DOMAIN node.arguments : ~EvaluatedOf(node, i).ok}
FirstFaulting(node) ==
    CHOOSE i \in Faulting(node) : \A j \in Faulting(node) : i <= j
\* the statement is a call, or a LET of a call
AtAnyCall ==
    /\ AtStatement
    /\ \/ Cur.type = "CallStatement"
       \/ Cur.type = "LetStatement" /\ Cur.value.type = "CallExpression"
    /\ Oracles(IF Cur.type = "LetStatement" THEN Cur.value ELSE Cur)
          = {NoOracle}
CallNode == IF Cur.type = "LetStatement" THEN Cur.value ELSE Cur
C27_FaultingArgumentStopsCall ==
    [][(AtAnyCall /\ Faulting(CallNode) # {})
       => LET k == FirstFaulting(CallNode)
          IN  /\ call_log' = call_log \o TraceUpTo(CallNode, k)
              /\ \A i \in DOMAIN call_log' :
                   i > Len(call_log) =>
                     call_log'[i].name # CallNode.tool_name
              /\ exc' = EvaluatedOf(CallNode, k).exc
              /\ status' = "faulted"
              /\ variables' = variables]_vars
\* CALL process {value: CALL tool_that_errors {}, mode: CALL identity ..}
\* has raised: tool_that_errors is all that was invoked
C27_FirstArgumentRaised ==
    /\ status = "raised"
    /\ executions = 1
    /\ script = <<CallStatement("process",
                      <<Arg("value", ToolThatErrors),
                        Arg("mode", Identity(StrV(<<"a">>)))>>)>>
    /\ tool_registry = ToolNames
    /\ call_log = <<ToolEvent("tool_that_errors", <<>>)>>
    /\ exc.what = "ToolExecutionFailed"

(***************************************************************************)
(* C28.  There is no rollback on fault: in the step that raises and in     *)
(* every step of the exception's way out, each variable keeps its binding  *)
(* and its value, except the loop variable of a FOR the exception leaves,  *)
(* which is restored; so what completed statements bound is still bound,   *)
(* with the value it had when the fault happened, once execute has raised. *)
(***************************************************************************)
C28_NoRollbackOnFault ==
    [][exc' # NoExc =>
         \A n \in DOMAIN variables :
             \/ n \in DOMAIN variables' /\ variables'[n] = variables[n]
             \/ /\ exc # NoExc
                /\ Len(stack) > 0
                /\ Top.kind = "for"
                /\ Top.var = n]_vars
\* LET a = 5 completed, the next statement raised, and a is still 5
C28_BindingSurvivesFault ==
    /\ status = "raised"
    /\ executions = 1
    /\ Len(script) = 2
    /\ script[1] = LetStatement("a", Literal(IntV(5)))
    /\ script[2] = CallStatement("tool_that_errors", <<>>)
    /\ variables = [a |-> IntV(5)]

(***************************************************************************)
(* C29.  A FOR statement evaluates its iterable expression exactly once,   *)
(* before the first iteration: a tool call in the iterable is invoked      *)
(* once, and a body that re-assigns the variable the list came from still  *)
(* runs once for each element of that list, in order, with the element     *)
(* bound to the loop variable.                                             *)
(***************************************************************************)
ReassigningLoop ==
    ForStatement("item", Var("xs"),
        << LetStatement("xs", Literal(IntV(123))), Process(Var("item")) >>)
ProcessCalls(items) ==
    [i \in 1..Len(items) |-> ToolEvent("process", [value |-> items[i]])]
GetListCalls == {i \in DOMAIN call_log : call_log[i] = GetListCall}
C29_IterableEvaluatedOnce ==
    /\ (/\ script = <<LetStatement("xs", CallGetList), ReassigningLoop>>
        /\ executions = 1
        /\ tool_registry = ToolNames
        /\ Len(stack) >= 2) =>
           LET expected == <<GetListCall>> \o ProcessCalls(stack[2].items)
           IN  /\ IsPrefix(call_log, expected)
               /\ stack[2].pc > Len(stack[2].items) => call_log = expected
               /\ Len(stack) = 3 /\ stack[3].pc > 1
                    => variables["item"] = stack[2].items[stack[2].pc]
    /\ (/\ script = <<ForStatement("item", CallGetList, <<CheckItem>>)>>
        /\ executions = 1
        /\ tool_registry = ToolNames) =>
           /\ Cardinality(GetListCalls) <= 1
           /\ Len(stack) >= 2 => GetListCalls = {1}
\* the list of two elements was re-assigned in the first turn, and the loop
\* has run for both elements
C29_ReassignedListStillIterated ==
    /\ script = <<LetStatement("xs", CallGetList), ReassigningLoop>>
    /\ executions = 1
    /\ status = "completed"
    /\ variables["xs"] = IntV(123)
    /\ call_log = << GetListCall,
                     ToolEvent("process", [value |-> D1]),
                     ToolEvent("process", [value |-> D2]) >>

(***************************************************************************)
(* C30.  Scope is flat except for the loop variable: a LET to the loop     *)
(* variable inside a FOR body is discarded when the iteration ends (the    *)
(* next iteration sees the next element of the list, and after the loop    *)
(* the variable is in the state it was in before the loop), whereas a LET  *)
(* to another name inside a FOR or an IF block keeps the value it assigned *)
(* last after the block.                                                   *)
(***************************************************************************)
AssigningLoop ==
    ForStatement("item", CallGetList,
        << LetStatement("seen", Var("item")),
           LetStatement("item", Literal(IntV(5))),
           LetStatement("last", Var("item")) >>)
\* LET item = <expression> before the loop, and what it binds item to
BoundBefore ==
    (LetStatement("item", Literal(IntV(7))) :> IntV(7))
    @@ (LetStatement("item", CallExpression("process",
                                 <<Arg("value", Literal(IntV(1)))>>)) :> NoneV)
\* the loop alone, or after a LET of the loop variable in pre
FlatScope(pre) ==
    /\ (/\ executions = 1
        /\ tool_registry = ToolNames
        /\ \/ script = <<AssigningLoop>>
           \/ \E let \in pre : script = <<let, AssigningLoop>>) =>
           LET loop == Len(script) + 1
           IN  \* each turn sees its element, whatever the turn before assigned
               /\ (Len(stack) = loop + 1 /\ stack[loop + 1].pc > 1)
                     => variables["seen"] = stack[loop].items[stack[loop].pc]
               \* after the loop: the loop variable as before, the others kept
               /\ status = "completed" =>
                     /\ VarState(variables, "item")
                          = IF Len(script) = 1
                            THEN [bound |-> FALSE, val |-> NoneV]
                            ELSE [bound |-> TRUE, val |-> BoundBefore[script[1]]]
                     /\ "last" \in DOMAIN variables
                          => variables["last"] = IntV(5)
                     /\ "seen" \in DOMAIN variables <=> "last" \in DOMAIN variables
    /\ (/\ executions = 1
        /\ tool_registry = ToolNames
        /\ script = <<IfStatement(Literal(BoolV(TRUE)), ThenBlock, NoBlock)>>
        /\ status = "completed") => variables = [a |-> IntV(11)]
C30_FlatScopeExceptLoopVariable == FlatScope(DOMAIN BoundBefore)
\* what holds instead: the same, where the loop variable was not bound to
\* None before the loop
C30_FlatScopeUnlessBoundToNone ==
    FlatScope({let \in DOMAIN BoundBefore : BoundBefore[let] # NoneV})

=============================================================================
